---- MODULE Spec2Model ----
(***************************************************************************)
(* Volatility-adaptive spread engine of the 2Inch repository:              *)
(*   - VolatilitySpreadCalculator.sol   the on-chain amount getters        *)
(*   - ChainlinkVolatilityLib.sol       token configs, price rings,        *)
(*                                      volatility estimator               *)
(*   - volatility-spread.extension.ts   the SDK codec of the getter data   *)
(* Solidity's uint256 is modelled as an unsigned word of UINT_BITS bits;   *)
(* unchecked operations wrap modulo 2^UINT_BITS, solady's mulDiv reverts   *)
(* when the product leaves the word.                                       *)
(***************************************************************************)
EXTENDS Integers, Sequences, FiniteSets, TLC

VARIABLES
    admin,            \* VolatilitySpreadCalculator.admin
    tokenConfigs,     \* volatilityStorage.tokenConfigs
    priceHistories,   \* volatilityStorage.priceHistories
    now,              \* block.timestamp
    feeds,            \* the Chainlink aggregators: latestRoundData of each
    call,             \* the external call in progress / its outcome
    sdk               \* the SDK codec operation in progress / its outcome

chainVars == <<admin, tokenConfigs, priceHistories, now, feeds>>
vars == <<admin, tokenConfigs, priceHistories, now, feeds, call, sdk>>

----------------------------------------------------------------------------
(* Bounds of the model *)

UINT_BITS == 29          \* width of the modelled machine word
MaxBatch == 2            \* longest array passed to a batch call
Genesis == 1000000       \* block.timestamp when the modelled period starts
MaxDays == 2             \* whole days the clock may advance
MaxHalfHours == 2        \* half hours the clock may be past a whole day

UINT_MAX == 2^UINT_BITS - 1

(* Program constants *)

BASIS_POINTS == 10000
MAX_SPREAD == 1000
MAX_MULTIPLIER == 1000
STABLECOIN_VOLATILITY == 100
DEFAULT_VOLATILITY == 3000
MAX_STALENESS == 3600
VOLATILITY_SCALE == 10000
HOUR == 3600
DAY == 86400
HOURLY_SLOTS == 24
DAILY_SLOTS == 7
ANNUALIZE_NUM == 1910
ANNUALIZE_DEN == 100

Tokens == {"WETH", "USDC", "DAI"}
Accounts == {"alice", "bob"}
ZeroAddress == "0x0"
FeedOf == [t \in Tokens |->
             IF t = "WETH" THEN "ETH_USD"
             ELSE IF t = "USDC" THEN "USDC_USD" ELSE ZeroAddress]
FeedAddrs == {"ETH_USD", "USDC_USD"}

----------------------------------------------------------------------------
(* Outcomes of a call: a value, or a revert with its error *)

Ok(v) == [ok |-> TRUE, err |-> "", val |-> v]
Revert(e) == [ok |-> FALSE, err |-> e, val |-> 0]

Idle == [op |-> "none"]

----------------------------------------------------------------------------
(* solady FixedPointMathLib, as used by the calculator and the library *)

\* mulDiv: floor(x * y / d); reverts if x * y overflows the word or d = 0
mulDiv(x, y, d) ==
    IF d = 0 \/ (y # 0 /\ x > UINT_MAX \div y)
    THEN Revert("MulDivFailed")
    ELSE Ok((x * y) \div d)

\* rawAdd: unchecked addition, wraps
rawAdd(x, y) == (x + y) % (UINT_MAX + 1)

\* rawSub: unchecked subtraction, wraps
rawSub(x, y) == ((x - y) + (UINT_MAX + 1)) % (UINT_MAX + 1)

min(x, y) == IF x < y THEN x ELSE y

RECURSIVE SqrtSearch(_, _, _)
SqrtSearch(v, lo, hi) ==
    IF lo >= hi THEN lo
    ELSE LET mid == (lo + hi + 1) \div 2
         IN IF mid * mid <= v THEN SqrtSearch(v, mid, hi)
                              ELSE SqrtSearch(v, lo, mid - 1)

\* sqrt: floor of the square root
sqrt(v) == SqrtSearch(v, 0, min(v, 32767))

----------------------------------------------------------------------------
(* ChainlinkVolatilityLib: storage defaults *)

NoConfig == [priceFeed |-> ZeroAddress, volatilityOverride |-> 0,
             isStablecoin |-> FALSE, isSupported |-> FALSE]

NoHistory == [hourlyPrices |-> [i \in 0..(HOURLY_SLOTS - 1) |-> 0],
              dailyPrices |-> [i \in 0..(DAILY_SLOTS - 1) |-> 0],
              lastHourlyUpdate |-> 0, lastDailyUpdate |-> 0,
              hourlyIndex |-> 0, dailyIndex |-> 0]

(* ChainlinkVolatilityLib: the volatility estimator *)

\* |return_ - VOLATILITY_SCALE|: the absolute return of one pair, in bps
absReturn(return_) ==
    IF return_ > VOLATILITY_SCALE THEN return_ - VOLATILITY_SCALE
                                  ELSE VOLATILITY_SCALE - return_

\* sumReturns += return_; sumSquaredReturns += return_ * return_; validSamples++
\* (checked arithmetic: VolatilityStep reverts when a sum leaves the word)
accumulate(acc, return_) ==
    <<acc[1] + return_, acc[2] + return_ * return_, acc[3] + 1>>

\* the loop without the test of prices[i]: an empty slot after a recorded
\* price enters the sums as a return of 0, a move of 100 %
RECURSIVE VolatilityLoop_CountsEmptySlots(_, _, _, _)
VolatilityLoop_CountsEmptySlots(prices, i, count, acc) ==
    IF i >= count THEN Ok(acc)
    ELSE IF prices[i - 1] = 0
         THEN VolatilityLoop_CountsEmptySlots(prices, i + 1, count, acc)
         ELSE VolatilityLoop_CountsEmptySlots(prices, i + 1, count,
                  accumulate(acc, absReturn((prices[i] * VOLATILITY_SCALE)
                                              \div prices[i - 1])))

\* the for loop of _calculateVolatilityFromPrices(uint256[24]) from index i:
\* acc = <<sumReturns, sumSquaredReturns, validSamples>>
RECURSIVE VolatilityLoop(_, _, _, _)
RECURSIVE VolatilityStep(_, _, _, _, _)
VolatilityStep(prices, i, count, acc, ratio) ==
    IF ~ratio.ok THEN ratio
    ELSE IF (absReturn(ratio.val) # 0
                /\ absReturn(ratio.val) > UINT_MAX \div absReturn(ratio.val))
              \/ accumulate(acc, absReturn(ratio.val))[2] > UINT_MAX
    THEN Revert("Panic(0x11)")
    ELSE VolatilityLoop(prices, i + 1, count, accumulate(acc, absReturn(ratio.val)))

VolatilityLoop(prices, i, count, acc) ==
    IF i >= count THEN Ok(acc)
    ELSE IF prices[i] = 0 \/ prices[i - 1] = 0
         THEN VolatilityLoop(prices, i + 1, count, acc)
         ELSE VolatilityStep(prices, i, count, acc,
                             mulDiv(prices[i], VOLATILITY_SCALE, prices[i - 1]))

\* the variance with the mean rounded up instead of down
standardDeviation_MeanRoundedUp(meanSquare, meanReturn) ==
    IF meanSquare < (meanReturn + 1) * (meanReturn + 1) THEN Revert("Panic(0x11)")
    ELSE Ok(sqrt(meanSquare - (meanReturn + 1) * (meanReturn + 1)))

\* variance = sumSquaredReturns / validSamples - meanReturn * meanReturn
\* (checked subtraction), and its square root
standardDeviation(meanSquare, meanReturn) ==
    IF meanSquare < meanReturn * meanReturn THEN Revert("Panic(0x11)")
    ELSE Ok(sqrt(meanSquare - meanReturn * meanReturn))

\* the tail of _calculateVolatilityFromPrices(uint256[24]) after the loop
volatilityFromSums(sums) ==
    IF ~sums.ok THEN sums
    ELSE IF sums.val[3] < 2 THEN Ok(DEFAULT_VOLATILITY)
    ELSE standardDeviation(sums.val[2] \div sums.val[3], sums.val[1] \div sums.val[3])

\* _calculateVolatilityFromPrices(uint256[24] storage prices, uint256 count)
calculateVolatilityFromPrices24(prices, count) ==
    IF count < 2 THEN Ok(DEFAULT_VOLATILITY)
    ELSE volatilityFromSums(VolatilityLoop(prices, 1, count, <<0, 0, 0>>))

\* _calculateVolatilityFromPrices(uint256[7] storage prices, uint256 count)
calculateVolatilityFromPrices7(prices, count) == Ok(DEFAULT_VOLATILITY)

\* _calculate24hVolatility
_calculate24hVolatility(token) ==
    IF priceHistories[token].lastHourlyUpdate = 0 THEN Ok(DEFAULT_VOLATILITY)
    ELSE calculateVolatilityFromPrices24(priceHistories[token].hourlyPrices,
                                         HOURLY_SLOTS)

\* return dailyVol.mulDiv(1910, 100)
annualize(dailyVol) ==
    IF ~dailyVol.ok THEN dailyVol
    ELSE mulDiv(dailyVol.val, ANNUALIZE_NUM, ANNUALIZE_DEN)

\* _calculate7dVolatility
_calculate7dVolatility(token) ==
    IF priceHistories[token].lastDailyUpdate = 0 THEN Ok(DEFAULT_VOLATILITY)
    ELSE annualize(calculateVolatilityFromPrices7(priceHistories[token].dailyPrices,
                                                  DAILY_SLOTS))

\* the blend with the two weights exchanged
blend_WeightsSwapped(vol24h, vol7d) ==
    IF ~vol24h.ok THEN vol24h
    ELSE IF ~vol7d.ok THEN vol7d
    ELSE Ok((vol24h.val * 30 + vol7d.val * 70) \div 100)

\* return (vol24h * 70 + vol7d * 30) / 100
blend(vol24h, vol7d) ==
    IF ~vol24h.ok THEN vol24h
    ELSE IF ~vol7d.ok THEN vol7d
    ELSE Ok((vol24h.val * 70 + vol7d.val * 30) \div 100)

\* getTokenVolatility without the isSupported check: an unconfigured token
\* falls through to the estimator
getTokenVolatility_NoSupportCheck(token, window) ==
    IF tokenConfigs[token].volatilityOverride > 0
         THEN Ok(tokenConfigs[token].volatilityOverride)
    ELSE IF tokenConfigs[token].isStablecoin THEN Ok(STABLECOIN_VOLATILITY)
    ELSE IF window = 0 THEN _calculate24hVolatility(token)
    ELSE IF window = 1 THEN _calculate7dVolatility(token)
    ELSE blend(_calculate24hVolatility(token), _calculate7dVolatility(token))

\* getTokenVolatility with the stablecoin branch ahead of the override branch
getTokenVolatility_StablecoinFirst(token, window) ==
    IF ~tokenConfigs[token].isSupported THEN Revert("TokenNotSupported")
    ELSE IF tokenConfigs[token].isStablecoin THEN Ok(STABLECOIN_VOLATILITY)
    ELSE IF tokenConfigs[token].volatilityOverride > 0
         THEN Ok(tokenConfigs[token].volatilityOverride)
    ELSE IF window = 0 THEN _calculate24hVolatility(token)
    ELSE IF window = 1 THEN _calculate7dVolatility(token)
    ELSE blend(_calculate24hVolatility(token), _calculate7dVolatility(token))

\* getTokenVolatility without the stablecoin branch
getTokenVolatility_NoStablecoinBranch(token, window) ==
    IF ~tokenConfigs[token].isSupported THEN Revert("TokenNotSupported")
    ELSE IF tokenConfigs[token].volatilityOverride > 0
         THEN Ok(tokenConfigs[token].volatilityOverride)
    ELSE IF window = 0 THEN _calculate24hVolatility(token)
    ELSE IF window = 1 THEN _calculate7dVolatility(token)
    ELSE blend(_calculate24hVolatility(token), _calculate7dVolatility(token))

\* getTokenVolatility(self, token, window)
getTokenVolatility(token, window) ==
    IF ~tokenConfigs[token].isSupported THEN Revert("TokenNotSupported")
    ELSE IF tokenConfigs[token].volatilityOverride > 0
         THEN Ok(tokenConfigs[token].volatilityOverride)
    ELSE IF tokenConfigs[token].isStablecoin THEN Ok(STABLECOIN_VOLATILITY)
    ELSE IF window = 0 THEN _calculate24hVolatility(token)
    ELSE IF window = 1 THEN _calculate7dVolatility(token)
    ELSE blend(_calculate24hVolatility(token), _calculate7dVolatility(token))

\* previewVolatility(self, token, window)
previewVolatility(token, volatilityWindow) ==
    getTokenVolatility(token, volatilityWindow)

----------------------------------------------------------------------------
(* Byte strings: sequences of 0..255.  ABI words are 32 bytes, big-endian;  *)
(* the modelled values occupy the low four bytes.                           *)

\* abi.encode of one uint256 / uint8 / bool value: a 32-byte word
Uint256BE(n) ==
    [i \in 1..32 |-> IF i <= 28 THEN 0 ELSE (n \div (256^(32 - i))) % 256]

\* the k-th 32-byte word (k = 0, 1, ...) of b read as an unsigned integer;
\* UINT_MAX + 1 stands for every value that does not fit the modelled word
WordAt(b, k) ==
    LET o == 32 * k
    IN IF (\E i \in 1..28 : b[o + i] # 0) \/ b[o + 29] >= 64
       THEN UINT_MAX + 1
       ELSE min(b[o + 29] * 16777216 + b[o + 30] * 65536
                  + b[o + 31] * 256 + b[o + 32], UINT_MAX + 1)

\* abi.encode(SpreadParams{...}): five words
AbiEncodeSpreadParams(p) ==
    Uint256BE(p.baseSpreadBps) \o Uint256BE(p.volatilityMultiplier)
      \o Uint256BE(p.maxSpreadBps) \o Uint256BE(p.volatilityWindow)
      \o Uint256BE(IF p.useTargetToken THEN 1 ELSE 0)

SpreadParams(b, m, x, w, u) ==
    [baseSpreadBps |-> b, volatilityMultiplier |-> m, maxSpreadBps |-> x,
     volatilityWindow |-> w, useTargetToken |-> u]

----------------------------------------------------------------------------
(* VolatilitySpreadCalculator *)

\* the SpreadParams held by five decoded words; the ABI decoder reverts on
\* a uint8 word above 255 and on a bool word above 1
decodeWords(w) ==
    IF w[3] > 255 \/ w[4] > 1 THEN Revert("AbiDecode")
    ELSE Ok(SpreadParams(w[0], w[1], w[2], w[3], w[4] = 1))

\* _decodeExtraData: abi.decode(extraData, (SpreadParams)); reverts on fewer
\* than 160 bytes
_decodeExtraData(extraData) ==
    IF Len(extraData) < 160 THEN Revert("AbiDecode")
    ELSE decodeWords([k \in 0..4 |-> WordAt(extraData, k)])

\* return dynamicSpread.min(maxSpreadBps), dynamicSpread = baseSpreadBps.rawAdd(impact)
capSpread(baseSpreadBps, maxSpreadBps, volatilityImpact) ==
    IF ~volatilityImpact.ok THEN volatilityImpact
    ELSE Ok(min(rawAdd(baseSpreadBps, volatilityImpact.val), maxSpreadBps))

\* _calculateDynamicSpread
_calculateDynamicSpread(baseSpreadBps, volatilityMultiplier, maxSpreadBps, currentVolatility) ==
    capSpread(baseSpreadBps, maxSpreadBps,
              mulDiv(currentVolatility \div 100, volatilityMultiplier, 100))

\* the spread for decoded params once the volatility lookup has returned
spreadForVolatility(p, currentVolatility) ==
    IF ~currentVolatility.ok THEN currentVolatility
    ELSE _calculateDynamicSpread(p.baseSpreadBps, p.volatilityMultiplier,
                                 p.maxSpreadBps, currentVolatility.val)

\* targetToken = params.useTargetToken ? order.makerAsset : order.takerAsset
targetToken(order, p) ==
    IF p.useTargetToken THEN order.makerAsset ELSE order.takerAsset

\* the head of both getters after the decode: target token, its volatility,
\* the dynamic spread
spreadForParams(order, params) ==
    IF ~params.ok THEN params
    ELSE spreadForVolatility(params.val,
            getTokenVolatility(targetToken(order, params.val),
                               params.val.volatilityWindow))

\* the head of both getters: decode, then the spread
getterSpread(order, extraData) ==
    spreadForParams(order, _decodeExtraData(extraData))

\* takingAmount = originalTakingAmount.rawAdd(premium)
addPremium(originalTakingAmount, premium) ==
    IF ~premium.ok THEN premium
    ELSE Ok(rawAdd(originalTakingAmount, premium.val))

\* the tail of getTakingAmount with the premium rounded up instead of down
applyTakingSpread_PremiumRoundedUp(dynamicSpread, originalTakingAmount) ==
    IF ~dynamicSpread.ok THEN dynamicSpread
    ELSE IF ~originalTakingAmount.ok THEN originalTakingAmount
    ELSE IF ~mulDiv(originalTakingAmount.val, dynamicSpread.val, BASIS_POINTS).ok
    THEN Revert("MulDivFailed")
    ELSE addPremium(originalTakingAmount.val,
             Ok((originalTakingAmount.val * dynamicSpread.val + BASIS_POINTS - 1)
                  \div BASIS_POINTS))

\* the tail of getTakingAmount: apply the spread to the proportional amount
applyTakingSpread(dynamicSpread, originalTakingAmount) ==
    IF ~dynamicSpread.ok THEN dynamicSpread
    ELSE IF ~originalTakingAmount.ok THEN originalTakingAmount
    ELSE addPremium(originalTakingAmount.val,
                    mulDiv(originalTakingAmount.val, dynamicSpread.val, BASIS_POINTS))

\* getTakingAmount(order, , , , makingAmount, , extraData)
getTakingAmount(order, makingAmount, extraData) ==
    applyTakingSpread(getterSpread(order, extraData),
                      mulDiv(makingAmount, order.takingAmount, order.makingAmount))

\* makingAmount = originalMakingAmount.rawSub(discount)
subDiscount(originalMakingAmount, discount) ==
    IF ~discount.ok THEN discount
    ELSE Ok(rawSub(originalMakingAmount, discount.val))

\* the tail of getMakingAmount: apply the spread to the proportional amount
applyMakingSpread(dynamicSpread, originalMakingAmount) ==
    IF ~dynamicSpread.ok THEN dynamicSpread
    ELSE IF ~originalMakingAmount.ok THEN originalMakingAmount
    ELSE subDiscount(originalMakingAmount.val,
                     mulDiv(originalMakingAmount.val, dynamicSpread.val, BASIS_POINTS))

\* getMakingAmount(order, , , , takingAmount, , extraData)
getMakingAmount(order, takingAmount, extraData) ==
    applyMakingSpread(getterSpread(order, extraData),
                      mulDiv(takingAmount, order.makingAmount, order.takingAmount))

\* the pair (currentVolatility, dynamicSpread) previewSpread returns
previewPair(currentVolatility, dynamicSpread) ==
    IF ~dynamicSpread.ok THEN dynamicSpread
    ELSE Ok(<<currentVolatility.val, dynamicSpread.val>>)

\* previewSpread(tokenA, baseSpreadBps, volatilityMultiplier, maxSpreadBps, volatilityWindow)
previewSpreadFor(p, currentVolatility) ==
    previewPair(currentVolatility, spreadForVolatility(p, currentVolatility))

previewSpread(tokenA, p) ==
    previewSpreadFor(p, getTokenVolatility(tokenA, p.volatilityWindow))

\* encodeSpreadParams
encodeSpreadParams(p) ==
    IF p.baseSpreadBps > MAX_SPREAD THEN Revert("SpreadTooHigh")
    ELSE IF p.maxSpreadBps > MAX_SPREAD THEN Revert("SpreadTooHigh")
    ELSE IF p.volatilityMultiplier > MAX_MULTIPLIER THEN Revert("InvalidParam")
    ELSE IF p.volatilityWindow > 2 THEN Revert("InvalidParam")
    ELSE Ok(AbiEncodeSpreadParams(p))

----------------------------------------------------------------------------
(* ChainlinkVolatilityLib: configuration and price updates *)

\* the loop with a partial update: a zero override keeps the stored one
RECURSIVE setUpTokenFeedsLoop_KeepsOverride(_, _, _, _, _, _)
setUpTokenFeedsLoop_KeepsOverride(configs, tokens, priceFeeds, isStableCoin, volatilityOverrides, i) ==
    IF i > Len(tokens) THEN Ok(configs)
    ELSE IF i > Len(priceFeeds) \/ i > Len(volatilityOverrides) \/ i > Len(isStableCoin)
         THEN Revert("Panic(0x32)")
         ELSE setUpTokenFeedsLoop_KeepsOverride(
                 [configs EXCEPT ![tokens[i]] =
                     [priceFeed |-> priceFeeds[i],
                      volatilityOverride |->
                          IF volatilityOverrides[i] = 0
                          THEN configs[tokens[i]].volatilityOverride
                          ELSE volatilityOverrides[i],
                      isStablecoin |-> isStableCoin[i],
                      isSupported |-> TRUE]],
                 tokens, priceFeeds, isStableCoin, volatilityOverrides, i + 1)

\* the for loop of setUpTokenFeeds; reading past the end of a shorter array
\* panics and the transaction reverts
RECURSIVE setUpTokenFeedsLoop(_, _, _, _, _, _)
setUpTokenFeedsLoop(configs, tokens, priceFeeds, isStableCoin, volatilityOverrides, i) ==
    IF i > Len(tokens) THEN Ok(configs)
    ELSE IF i > Len(priceFeeds) \/ i > Len(volatilityOverrides) \/ i > Len(isStableCoin)
         THEN Revert("Panic(0x32)")
         ELSE setUpTokenFeedsLoop(
                 [configs EXCEPT ![tokens[i]] =
                     [priceFeed |-> priceFeeds[i],
                      volatilityOverride |-> volatilityOverrides[i],
                      isStablecoin |-> isStableCoin[i],
                      isSupported |-> TRUE]],
                 tokens, priceFeeds, isStableCoin, volatilityOverrides, i + 1)

\* setUpTokenFeeds: the token configs after the call, or the revert
setUpTokenFeeds(tokens, priceFeeds, isStableCoin, volatilityOverrides) ==
    setUpTokenFeedsLoop(tokenConfigs, tokens, priceFeeds, isStableCoin,
                        volatilityOverrides, 1)

\* addTokenFeeds without the admin check
addTokenFeeds_Unrestricted(sender, tokens, priceFeeds, isStableCoin, volatilityOverrides) ==
    setUpTokenFeeds(tokens, priceFeeds, isStableCoin, volatilityOverrides)

\* addTokenFeeds (msg.sender = sender)
addTokenFeeds(sender, tokens, priceFeeds, isStableCoin, volatilityOverrides) ==
    IF sender # admin THEN Revert("RestrictedOperation")
    ELSE setUpTokenFeeds(tokens, priceFeeds, isStableCoin, volatilityOverrides)

\* the ring writes without the cadence gates
writeRings_Ungated(history, currentPrice) ==
    [history EXCEPT
        !.hourlyPrices[history.hourlyIndex] = currentPrice,
        !.hourlyIndex = (history.hourlyIndex + 1) % HOURLY_SLOTS,
        !.lastHourlyUpdate = now,
        !.dailyPrices[history.dailyIndex] = currentPrice,
        !.dailyIndex = (history.dailyIndex + 1) % DAILY_SLOTS,
        !.lastDailyUpdate = now]

\* one round of the hourly / daily write of updatePriceHistory
writeRings(history, currentPrice) ==
    LET h1 == IF now >= history.lastHourlyUpdate + HOUR
              THEN [history EXCEPT
                      !.hourlyPrices[history.hourlyIndex] = currentPrice,
                      !.hourlyIndex = (history.hourlyIndex + 1) % HOURLY_SLOTS,
                      !.lastHourlyUpdate = now]
              ELSE history
    IN IF now >= h1.lastDailyUpdate + DAY
       THEN [h1 EXCEPT
               !.dailyPrices[h1.dailyIndex] = currentPrice,
               !.dailyIndex = (h1.dailyIndex + 1) % DAILY_SLOTS,
               !.lastDailyUpdate = now]
       ELSE h1

\* the checks on a feed reading without the staleness check
roundError_NoStalenessCheck(round) ==
    IF round.price <= 0 THEN "InvalidVolatility"
    ELSE IF now < round.updatedAt THEN "Panic(0x11)"
    ELSE ""

\* the checks of updatePriceHistory on latestRoundData of a token's feed:
\* "" when the reading is accepted, else the error
roundError(round) ==
    IF round.price <= 0 THEN "InvalidVolatility"
    ELSE IF now < round.updatedAt THEN "Panic(0x11)"
    ELSE IF now - round.updatedAt > MAX_STALENESS THEN "StaleVolatilityData"
    ELSE ""

\* the error of one iteration of updatePriceHistory for a token, "" if none;
\* latestRoundData of an address without code reverts
tokenUpdateError(t) ==
    IF ~tokenConfigs[t].isSupported THEN "TokenNotSupported"
    ELSE IF tokenConfigs[t].priceFeed \notin FeedAddrs THEN "CallFailed"
    ELSE roundError(feeds[tokenConfigs[t].priceFeed])

\* the for loop of updatePriceHistory over token[i..]
RECURSIVE updatePriceHistoryLoop(_, _, _)
updatePriceHistoryLoop(histories, token, i) ==
    IF i > Len(token) THEN Ok(histories)
    ELSE IF tokenUpdateError(token[i]) # "" THEN Revert(tokenUpdateError(token[i]))
    ELSE updatePriceHistoryLoop(
            [histories EXCEPT ![token[i]] =
                writeRings(histories[token[i]],
                           feeds[tokenConfigs[token[i]].priceFeed].price)],
            token, i + 1)

\* updatePriceHistory(token[]): the price histories after the call, or the revert
updatePriceHistory(token) == updatePriceHistoryLoop(priceHistories, token, 1)

----------------------------------------------------------------------------
(* Inputs of the calls *)

\* the rows an admin passes to addTokenFeeds: token, isStablecoin, override
CfgEntries == {<<"WETH", FALSE, 0>>, <<"WETH", FALSE, 2000>>,
               <<"WETH", FALSE, 10000>>, <<"USDC", TRUE, 0>>,
               <<"USDC", TRUE, 2000>>}

AssetPairs == {<<"WETH", "USDC">>, <<"USDC", "DAI">>}
OrderAmounts == {<<1, 1>>, <<1, UINT_MAX>>, <<10000, 30000>>, <<0, 1>>, <<1, 0>>}
Orders == {[makerAsset |-> a[1], takerAsset |-> a[2],
            makingAmount |-> q[1], takingAmount |-> q[2]] :
              a \in AssetPairs, q \in OrderAmounts}
FillAmounts == {1, 10000}

BaseVals == {1, 50, 500, 20000, UINT_MAX}
MultVals == {200, UINT_MAX}
MaxVals == {1, 200, 300, 20000}
Windows == {0, 1, 2}
ParamSet == {SpreadParams(b, m, x, w, u) :
               b \in BaseVals, m \in MultVals, x \in MaxVals,
               w \in Windows, u \in BOOLEAN}

\* the extra data handed to a getter: the ABI encoding of params, the same
\* cut to 98 bytes, or the same with the bool word set to 2
ExtraDataBytes(d) ==
    LET abi == AbiEncodeSpreadParams(d.params)
    IN IF d.kind = "abi" THEN abi
       ELSE IF d.kind = "truncated" THEN SubSeq(abi, 1, 98)
       ELSE SubSeq(abi, 1, 128) \o Uint256BE(2)

ExtraDatas ==
    {[kind |-> "abi", params |-> p] : p \in ParamSet}
      \cup {[kind |-> k, params |-> SpreadParams(50, 200, 200, 0, TRUE)] :
               k \in {"truncated", "badbool"}}
      \cup {[kind |-> "abi", params |-> SpreadParams(50, 200, 200, 3, TRUE)]}

----------------------------------------------------------------------------
(* Actions: one per external call.  A call is one transaction: it runs from *)
(* the idle state, leaves its outcome in `call`, and Return hands it back.  *)

Return ==
    /\ call # Idle
    /\ call' = Idle
    /\ UNCHANGED <<chainVars, sdk>>

AddTokenFeeds ==
    /\ call = Idle
    /\ \E sender \in Accounts, n \in 1..MaxBatch :
         \E rows \in [1..n -> CfgEntries], nf \in {n - 1, n} :
            LET tokens == [i \in 1..n |-> rows[i][1]]
                isStablecoin == [i \in 1..n |-> rows[i][2]]
                volatilityOverrides == [i \in 1..n |-> rows[i][3]]
                priceFeeds == [i \in 1..nf |-> FeedOf[tokens[i]]]
                r == addTokenFeeds(sender, tokens, priceFeeds, isStablecoin,
                                   volatilityOverrides)
            IN /\ call' = [op |-> "addTokenFeeds", sender |-> sender,
                           tokens |-> tokens, priceFeeds |-> priceFeeds,
                           isStablecoin |-> isStablecoin,
                           volatilityOverrides |-> volatilityOverrides,
                           before |-> tokenConfigs,
                           result |-> IF r.ok THEN Ok(0) ELSE r]
               /\ tokenConfigs' = IF r.ok THEN r.val ELSE tokenConfigs
    /\ UNCHANGED <<admin, priceHistories, now, feeds, sdk>>

GetTakingAmount ==
    /\ call = Idle
    /\ \E order \in Orders, makingAmount \in FillAmounts, extraData \in ExtraDatas :
         call' = [op |-> "getTakingAmount", order |-> order,
                  amount |-> makingAmount, extraData |-> extraData,
                  result |-> getTakingAmount(order, makingAmount,
                                             ExtraDataBytes(extraData))]
    /\ UNCHANGED <<chainVars, sdk>>

GetMakingAmount ==
    /\ call = Idle
    /\ \E order \in Orders, takingAmount \in FillAmounts, extraData \in ExtraDatas :
         call' = [op |-> "getMakingAmount", order |-> order,
                  amount |-> takingAmount, extraData |-> extraData,
                  result |-> getMakingAmount(order, takingAmount,
                                             ExtraDataBytes(extraData))]
    /\ UNCHANGED <<chainVars, sdk>>

PreviewSpread ==
    /\ call = Idle
    /\ \E tokenA \in Tokens, p \in ParamSet :
         /\ ~p.useTargetToken
         /\ call' = [op |-> "previewSpread", token |-> tokenA, params |-> p,
                     result |-> previewSpread(tokenA, p)]
    /\ UNCHANGED <<chainVars, sdk>>

EncodeSpreadParams ==
    /\ call = Idle
    /\ \E p \in ParamSet \cup {SpreadParams(50, 200, 200, 3, TRUE),
                               SpreadParams(50, 1001, 200, 0, TRUE)} :
         call' = [op |-> "encodeSpreadParams", params |-> p,
                  result |-> encodeSpreadParams(p)]
    /\ UNCHANGED <<chainVars, sdk>>

Init ==
    /\ admin = "alice"
    /\ tokenConfigs = [t \in Tokens |-> NoConfig]
    /\ priceHistories = [t \in Tokens |-> NoHistory]
    /\ now = Genesis
    /\ feeds = [f \in FeedAddrs |-> [price |-> 100, updatedAt |-> Genesis]]
    /\ call = Idle
    /\ sdk = Idle

\* The calculator: configuration by the admin, the fill path and the previews
Next ==
    \/ Return
    \/ AddTokenFeeds
    \/ GetTakingAmount
    \/ GetMakingAmount
    \/ PreviewSpread
    \/ EncodeSpreadParams

Spec == Init /\ [][Next]_vars

----------------------------------------------------------------------------
(* The spread as a function of the volatility: _calculateDynamicSpread and  *)
(* the tails of the two getters applied to one order at two volatilities.   *)

\* the volatilities a lookup returns: a flat ring, a stablecoin, an
\* override, the default, a long-window figure
Volatilities == {0, 100, 2000, 3000, 57300}

\* the spread, the taking amount and the making amount of one order and
\* fill amount at volatility v
amountsAt(p, order, amount, v) ==
    [dynamicSpread |->
        _calculateDynamicSpread(p.baseSpreadBps, p.volatilityMultiplier,
                                p.maxSpreadBps, v),
     takingAmount |->
        applyTakingSpread(
            _calculateDynamicSpread(p.baseSpreadBps, p.volatilityMultiplier,
                                    p.maxSpreadBps, v),
            mulDiv(amount, order.takingAmount, order.makingAmount)),
     makingAmount |->
        applyMakingSpread(
            _calculateDynamicSpread(p.baseSpreadBps, p.volatilityMultiplier,
                                    p.maxSpreadBps, v),
            mulDiv(amount, order.makingAmount, order.takingAmount))]

\* the getters serve the same order and amount at volatilities v1 <= v2;
\* the assets play no part once the volatility is given: one pair is drawn
CalculateDynamicSpread ==
    /\ call = Idle
    /\ \E p \in ParamSet, order \in Orders, amount \in FillAmounts,
          v1 \in Volatilities, v2 \in Volatilities :
         /\ v1 <= v2
         /\ order.makerAsset = "WETH"
         /\ call' = [op |-> "_calculateDynamicSpread", params |-> p,
                     order |-> order, amount |-> amount, v1 |-> v1, v2 |-> v2,
                     at1 |-> amountsAt(p, order, amount, v1),
                     at2 |-> amountsAt(p, order, amount, v2)]
    /\ UNCHANGED <<chainVars, sdk>>

NextSpread ==
    \/ CalculateDynamicSpread
    \/ Return

SpecSpread == Init /\ [][NextSpread]_vars

----------------------------------------------------------------------------
(* The price history: the clock, the Chainlink feeds, the keeper's updates  *)
(* and the volatility previews.                                             *)

\* the clock advances by half an hour, an hour or a day
TimeSteps == {HOUR \div 2, HOUR, DAY}
LastInstant == Genesis + MaxDays * DAY + MaxHalfHours * (HOUR \div 2)

\* the feeds that post rounds during the modelled period, and their answers
LiveFeeds == {"ETH_USD"}
FeedPrices == {0, 100, 110}

AdvanceTime ==
    /\ call = Idle
    /\ \E step \in TimeSteps :
         /\ now + step <= LastInstant
         /\ (now + step - Genesis) % DAY <= MaxHalfHours * (HOUR \div 2)
         /\ now' = now + step
    /\ UNCHANGED <<admin, tokenConfigs, priceHistories, feeds, call, sdk>>

\* a feed posts a round: latestRoundData returns (price, updatedAt = now)
FeedAnswer ==
    /\ call = Idle
    /\ \E f \in LiveFeeds, price \in FeedPrices :
         /\ feeds[f] # [price |-> price, updatedAt |-> now]
         /\ feeds' = [feeds EXCEPT ![f] = [price |-> price, updatedAt |-> now]]
    /\ UNCHANGED <<admin, tokenConfigs, priceHistories, now, call, sdk>>

\* the batches a keeper passes to updatePriceHistory
UpdateBatches == {<<"WETH">>, <<"USDC">>, <<"DAI">>, <<"WETH", "USDC">>,
                  <<"WETH", "DAI">>, <<"USDC", "WETH">>, <<"WETH", "WETH">>}

UpdatePriceHistory ==
    /\ call = Idle
    /\ \E token \in UpdateBatches :
          LET r == updatePriceHistory(token)
          IN /\ call' = [op |-> "updatePriceHistory", token |-> token,
                         before |-> priceHistories,
                         result |-> IF r.ok THEN Ok(0) ELSE r]
             /\ priceHistories' = IF r.ok THEN r.val ELSE priceHistories
    /\ UNCHANGED <<admin, tokenConfigs, now, feeds, sdk>>

PreviewVolatility ==
    /\ call = Idle
    /\ \E token \in Tokens, volatilityWindow \in Windows :
         call' = [op |-> "previewVolatility", token |-> token,
                  window |-> volatilityWindow,
                  result |-> previewVolatility(token, volatilityWindow)]
    /\ UNCHANGED <<chainVars, sdk>>

\* the overrides the admin gave WETH and USDC at deployment: none, or both
\* pinned
DeployedOverrides == {<<0, 0>>, <<2000, 2000>>}

\* the calculator as deployed: WETH on its feed, USDC as a stablecoin; DAI is
\* left unconfigured
InitHistory ==
    /\ admin = "alice"
    /\ \E volatilityOverrides \in DeployedOverrides :
          tokenConfigs =
             setUpTokenFeedsLoop([t \in Tokens |-> NoConfig], <<"WETH", "USDC">>,
                                 <<FeedOf["WETH"], FeedOf["USDC"]>>,
                                 <<FALSE, TRUE>>, volatilityOverrides, 1).val
    /\ priceHistories = [t \in Tokens |-> NoHistory]
    /\ now = Genesis
    /\ feeds = [f \in FeedAddrs |-> [price |-> 100, updatedAt |-> Genesis]]
    /\ call = Idle
    /\ sdk = Idle

NextHistory ==
    \/ Return
    \/ AdvanceTime
    \/ FeedAnswer
    \/ UpdatePriceHistory
    \/ PreviewVolatility

SpecHistory == InitHistory /\ [][NextHistory]_vars

\* a history after 23 hourly and 6 daily updates at a steady price: both
\* cursors stand on the last free slot of their ring
AgedHistory ==
    [hourlyPrices |-> [i \in 0..(HOURLY_SLOTS - 1) |->
                          IF i < HOURLY_SLOTS - 1 THEN 100 ELSE 0],
     dailyPrices |-> [i \in 0..(DAILY_SLOTS - 1) |->
                          IF i < DAILY_SLOTS - 1 THEN 100 ELSE 0],
     lastHourlyUpdate |-> Genesis - HOUR, lastDailyUpdate |-> Genesis - DAY,
     hourlyIndex |-> HOURLY_SLOTS - 1, dailyIndex |-> DAILY_SLOTS - 1]

\* the calculator after a week of updates of WETH
InitRing ==
    /\ admin = "alice"
    /\ tokenConfigs =
          setUpTokenFeedsLoop([t \in Tokens |-> NoConfig], <<"WETH", "USDC">>,
                              <<FeedOf["WETH"], FeedOf["USDC"]>>,
                              <<FALSE, TRUE>>, <<0, 0>>, 1).val
    /\ priceHistories = [t \in Tokens |->
                            IF t = "WETH" THEN AgedHistory ELSE NoHistory]
    /\ now = Genesis
    /\ feeds = [f \in FeedAddrs |-> [price |-> 100, updatedAt |-> Genesis]]
    /\ call = Idle
    /\ sdk = Idle

SpecRing == InitRing /\ [][NextHistory]_vars

\* the prices of the rings the estimator is applied to, and the number of
\* hourly updates that filled them
EstimatorPrices == {60, 100, 110}
MaxRecorded == 5

\* the history after the hourly updates recorded the prices of `recorded`,
\* one per hour, the first update having filled the first daily slot too
RecordedHistory(recorded) ==
    IF Len(recorded) = 0 THEN NoHistory
    ELSE [hourlyPrices |-> [i \in 0..(HOURLY_SLOTS - 1) |->
                               IF i < Len(recorded) THEN recorded[i + 1] ELSE 0],
          dailyPrices |-> [i \in 0..(DAILY_SLOTS - 1) |->
                               IF i = 0 THEN recorded[1] ELSE 0],
          lastHourlyUpdate |-> Genesis,
          lastDailyUpdate |-> Genesis - (Len(recorded) - 1) * HOUR,
          hourlyIndex |-> Len(recorded), dailyIndex |-> 1]

\* the calculator after up to MaxRecorded hourly updates of WETH
InitEstimator ==
    /\ admin = "alice"
    /\ tokenConfigs =
          setUpTokenFeedsLoop([t \in Tokens |-> NoConfig], <<"WETH", "USDC">>,
                              <<FeedOf["WETH"], FeedOf["USDC"]>>,
                              <<FALSE, TRUE>>, <<0, 0>>, 1).val
    /\ \E n \in 0..MaxRecorded :
         \E recorded \in [1..n -> EstimatorPrices] :
            priceHistories = [t \in Tokens |->
                                 IF t = "WETH" THEN RecordedHistory(recorded)
                                               ELSE NoHistory]
    /\ now = Genesis
    /\ feeds = [f \in FeedAddrs |-> [price |-> 100, updatedAt |-> Genesis]]
    /\ call = Idle
    /\ sdk = Idle

NextEstimator ==
    \/ PreviewVolatility
    \/ Return

SpecEstimator == InitEstimator /\ [][NextEstimator]_vars

\* the admin reconfigures tokens whose price history is already recorded
NextConfig ==
    \/ AddTokenFeeds
    \/ Return

SpecConfig == InitRing /\ [][NextConfig]_vars

----------------------------------------------------------------------------
(* The SDK codec: VolatilitySpreadExtension in its two revisions.  The first *)
(* packs the parameters with BytesBuilder, the second ABI-encodes them.     *)

Revisions == {"packed", "abi"}

\* a contract address: 20 bytes
CalculatorAddresses == {[i \in 1..20 |-> b] : b \in {17, 34}}

\* BytesBuilder: addUint256 x 3, addUint8 x 2
packSpreadParams(p) ==
    Uint256BE(p.baseSpreadBps) \o Uint256BE(p.volatilityMultiplier)
      \o Uint256BE(p.maxSpreadBps) \o <<p.volatilityWindow % 256>>
      \o <<IF p.useTargetToken THEN 1 ELSE 0>>

\* buildAmountGetterData of the revision
buildAmountGetterData(revision, p) ==
    IF revision = "packed" THEN packSpreadParams(p) ELSE AbiEncodeSpreadParams(p)

\* ExtensionBuilder.withMakingAmountData / withTakingAmountData:
\* address ++ data
withAmountData(address, data) == address \o data

\* build(): both getter segments carry the same data, no maker permit
build(revision, address, p) ==
    [makingAmountData |-> withAmountData(address, buildAmountGetterData(revision, p)),
     takingAmountData |-> withAmountData(address, buildAmountGetterData(revision, p)),
     hasMakerPermit |-> FALSE]

\* Address.fromFirstBytes
fromFirstBytes(data) == SubSeq(data, 1, 20)

\* what follows the 20-byte address in a getter segment
afterAddress(data) == SubSeq(data, 21, Len(data))

\* the SpreadParams object fromExtension builds from the decoded words:
\* the first revision decodes the flag as uint8 and compares it with 1n,
\* the second decodes it as bool
spreadParamsOf(revision, w) ==
    SpreadParams(w[0], w[1], w[2], w[3] % 256,
                 IF revision = "packed" THEN w[4] % 256 = 1 ELSE w[4] # 0)

\* abiCoder.decode of five static words: throws on fewer than 160 bytes
abiCoderDecode(revision, encodedData) ==
    IF Len(encodedData) < 160 THEN Revert("BUFFER_OVERRUN")
    ELSE Ok(spreadParamsOf(revision, [k \in 0..4 |-> WordAt(encodedData, k)]))

\* the tail of fromExtension once the parameters are decoded
extensionOf(address, decoded) ==
    IF ~decoded.ok THEN decoded
    ELSE Ok([address |-> address, spreadParams |-> decoded.val])

\* fromExtension without its comparison of the leading address
fromExtension_NoAddressCheck(revision, extension, expectedContract) ==
    IF extension.takingAmountData # extension.makingAmountData
    THEN Revert("Invalid extension, taking amount data must equal making amount data")
    ELSE extensionOf(fromFirstBytes(extension.makingAmountData),
                     abiCoderDecode(revision, afterAddress(extension.makingAmountData)))

\* VolatilitySpreadExtension.fromExtension(extension, expectedContract)
fromExtension(revision, extension, expectedContract) ==
    IF fromFirstBytes(extension.makingAmountData) # expectedContract
    THEN Revert("Extension contract address does not match expected address")
    ELSE IF extension.takingAmountData # extension.makingAmountData
    THEN Revert("Invalid extension, taking amount data must equal making amount data")
    ELSE extensionOf(fromFirstBytes(extension.makingAmountData),
                     abiCoderDecode(revision, afterAddress(extension.makingAmountData)))

\* SpreadParamsBuilder.custom: the validation of the SDK
custom(params) ==
    IF params.baseSpreadBps < 0 \/ params.baseSpreadBps > 10000
    THEN Revert("Base spread must be between 0 and 10000 bps")
    ELSE IF params.maxSpreadBps < params.baseSpreadBps \/ params.maxSpreadBps > 10000
    THEN Revert("Max spread must be >= base spread and <= 10000 bps")
    ELSE IF params.volatilityMultiplier < 0 \/ params.volatilityMultiplier > 10000
    THEN Revert("Volatility multiplier must be between 0 and 10000")
    ELSE IF params.volatilityWindow \notin {0, 1, 2}
    THEN Revert("Volatility window must be 0, 1, or 2")
    ELSE Ok(params)

\* the SpreadParams a maker builds extensions from
CodecParams == {p \in ParamSet : custom(p).ok}

\* VolatilitySpreadExtension.new(address, spreadParams).build()
BuildExtension ==
    /\ sdk = Idle
    /\ \E revision \in Revisions, address \in CalculatorAddresses, p \in CodecParams :
         sdk' = [op |-> "build", revision |-> revision, address |-> address,
                 params |-> p, extension |-> build(revision, address, p)]
    /\ UNCHANGED <<chainVars, call>>

\* VolatilitySpreadExtension.fromExtension on the extension just built
FromExtension ==
    /\ sdk.op = "build"
    /\ \E expectedContract \in CalculatorAddresses :
         sdk' = [op |-> "fromExtension", revision |-> sdk.revision,
                 source |-> sdk.op, address |-> sdk.address, params |-> sdk.params,
                 extension |-> sdk.extension,
                 expected |-> expectedContract,
                 result |-> fromExtension(sdk.revision, sdk.extension,
                                          expectedContract)]
    /\ UNCHANGED <<chainVars, call>>

\* a fill of the order: the protocol hands the getter what follows the
\* address of the segment, and the getter decodes it
DecodeExtraData ==
    /\ sdk.op = "build"
    /\ \E segment \in {"makingAmountData", "takingAmountData"} :
         sdk' = [op |-> "decodeExtraData", revision |-> sdk.revision,
                 source |-> sdk.op, address |-> sdk.address, params |-> sdk.params,
                 segment |-> segment, extension |-> sdk.extension,
                 result |-> _decodeExtraData(afterAddress(sdk.extension[segment]))]
    /\ UNCHANGED <<chainVars, call>>

\* the function selectors of the two getters: the first four bytes of the
\* keccak-256 hash of their signatures
getMakingAmountSelector == <<29, 150, 113, 195>>
getTakingAmountSelector == <<215, 255, 138, 128>>

\* buildOrderWithVolatilitySpread of the integration test: each getter
\* segment is abi.encodePacked(calculator, selector of the getter, spreadData)
buildOrderWithVolatilitySpread(calculator, spreadParams) ==
    [makingAmountData |-> calculator \o getMakingAmountSelector
                            \o AbiEncodeSpreadParams(spreadParams),
     takingAmountData |-> calculator \o getTakingAmountSelector
                            \o AbiEncodeSpreadParams(spreadParams),
     hasMakerPermit |-> FALSE]

\* the parameters carried by extensions that reach the SDK and the getter
\* from outside: two valid ones and one whose window tag is 3
ReceivedParams ==
    {SpreadParams(50, 200, 200, 0, TRUE), SpreadParams(50, 200, 300, 1, FALSE),
     SpreadParams(50, 200, 300, 3, FALSE)}

\* what follows the address in a received segment: the parameters in either
\* encoding, or the ABI encoding cut after its fourth word
ReceivedData ==
    {AbiEncodeSpreadParams(p) : p \in ReceivedParams}
      \cup {packSpreadParams(p) : p \in ReceivedParams}
      \cup {SubSeq(AbiEncodeSpreadParams(p), 1, 128) : p \in ReceivedParams}

\* the extensions an order can arrive with: any two segments
ReceivedExtensions ==
    {[makingAmountData |-> a1 \o d1, takingAmountData |-> a2 \o d2,
      hasMakerPermit |-> FALSE] :
        a1 \in CalculatorAddresses, a2 \in CalculatorAddresses,
        d1 \in ReceivedData, d2 \in ReceivedData}

\* the integration test builds the extension of an order
BuildOrderWithVolatilitySpread ==
    /\ sdk = Idle
    /\ \E calculator \in CalculatorAddresses, p \in CodecParams :
         sdk' = [op |-> "buildOrderWithVolatilitySpread", address |-> calculator,
                 params |-> p,
                 extension |-> buildOrderWithVolatilitySpread(calculator, p)]
    /\ UNCHANGED <<chainVars, call>>

\* an order arrives with an extension that this SDK did not build
ReceiveExtension ==
    /\ sdk = Idle
    /\ \E extension \in ReceivedExtensions :
         sdk' = [op |-> "received", extension |-> extension]
    /\ UNCHANGED <<chainVars, call>>

\* VolatilitySpreadExtension.fromExtension, in either revision, on an
\* extension that VolatilitySpreadExtension.build did not produce
FromReceivedExtension ==
    /\ sdk.op \in {"received", "buildOrderWithVolatilitySpread"}
    /\ \E revision \in Revisions, expectedContract \in CalculatorAddresses :
         sdk' = [op |-> "fromExtension", revision |-> revision,
                 source |-> sdk.op, extension |-> sdk.extension,
                 expected |-> expectedContract,
                 result |-> fromExtension(revision, sdk.extension,
                                          expectedContract)]
    /\ UNCHANGED <<chainVars, call>>

\* a fill of such an order: the getter decodes what follows the address
DecodeReceivedExtraData ==
    /\ sdk.op \in {"received", "buildOrderWithVolatilitySpread"}
    /\ \E segment \in {"makingAmountData", "takingAmountData"} :
         sdk' = [op |-> "decodeExtraData", source |-> sdk.op,
                 segment |-> segment, extension |-> sdk.extension,
                 result |-> _decodeExtraData(afterAddress(sdk.extension[segment]))]
    /\ UNCHANGED <<chainVars, call>>

\* the SDK object is dropped
Discard ==
    /\ sdk # Idle
    /\ sdk' = Idle
    /\ UNCHANGED <<chainVars, call>>

NextCodec ==
    \/ BuildExtension
    \/ FromExtension
    \/ DecodeExtraData
    \/ BuildOrderWithVolatilitySpread
    \/ ReceiveExtension
    \/ FromReceivedExtension
    \/ DecodeReceivedExtraData
    \/ Discard

SpecCodec == Init /\ [][NextCodec]_vars

----------------------------------------------------------------------------
(* The order builders of the Solidity tests: the extension bytes and the    *)
(* salt of an order.  keccak256 is an uninterpreted injective function: a   *)
(* bit field cut from a hash is the record of its preimage and of the cut.  *)

\* abi.encodePacked of a uint32 / uint64 value below 2^16
Uint32BE(n) == <<0, 0, n \div 256, n % 256>>
Uint64BE(n) == <<0, 0, 0, 0>> \o Uint32BE(n)

\* the revisions of buildOrderWithVolatilitySpread
OrderBuilders == {"IntegrationTest", "part_005", "part_006"}

\* the getter segments of the revision: with the selector of the getter, or
\* (part_005) the calculator followed by the parameters alone
builderSegments(builder, calculator, spreadParams) ==
    IF builder = "part_005"
    THEN [makingAmountData |-> calculator \o AbiEncodeSpreadParams(spreadParams),
          takingAmountData |-> calculator \o AbiEncodeSpreadParams(spreadParams),
          hasMakerPermit |-> FALSE]
    ELSE buildOrderWithVolatilitySpread(calculator, spreadParams)

\* the offsets that precede the segments
packedOffsets(builder, m, t) ==
    IF builder = "part_005"
    THEN Uint64BE(0) \o Uint64BE(m) \o Uint64BE(m + t) \o Uint64BE(m + t)
           \o Uint64BE(m + t) \o Uint64BE(m + t) \o Uint64BE(0) \o Uint64BE(0)
    ELSE Uint32BE(0) \o Uint32BE(0) \o Uint32BE(32 + m) \o Uint32BE(32 + m + t)
           \o Uint32BE(32 + m + t) \o Uint32BE(32 + m + t)
           \o Uint32BE(32 + m + t) \o Uint32BE(32 + m + t)

\* extension = abi.encodePacked(offsets, making getter, taking getter)
extensionBytes(builder, segments) ==
    packedOffsets(builder, Len(segments.makingAmountData),
                  Len(segments.takingAmountData))
      \o segments.makingAmountData \o segments.takingAmountData

\* bits cut from keccak256(data), and bits given literally as bytes
HashBits(data, part) == [kind |-> "keccak256", data |-> data, part |-> part]
LiteralBits(bytes) == [kind |-> "literal", data |-> bytes, part |-> "all"]

\* the salt of the order as (upper 96 bits, lower 160 bits).
\* IntegrationTest: (randomSalt << 160) | extensionHash, randomSalt being the
\*   top 96 bits of keccak256(block.timestamp, maker, makingAmount);
\* part_005: keccak256(extension) & ((1 << 160) - 1);
\* part_006: uint160(calculator) << 96: the first 12 bytes of the address are
\*   the upper 96 bits, its last 8 bytes and 12 zero bytes the lower 160
orderSalt(builder, calculator, extension, entropy) ==
    IF builder = "IntegrationTest"
    THEN [upper96 |-> HashBits(entropy, "high96"),
          lower160 |-> HashBits(extension, "low160")]
    ELSE IF builder = "part_005"
    THEN [upper96 |-> LiteralBits([i \in 1..12 |-> 0]),
          lower160 |-> HashBits(extension, "low160")]
    ELSE [upper96 |-> LiteralBits(SubSeq(calculator, 1, 12)),
          lower160 |-> LiteralBits(SubSeq(calculator, 13, 20)
                                     \o [i \in 1..12 |-> 0])]

\* buildOrderWithVolatilitySpread(maker, ..., makingAmount, ..., spreadParams)
\* at block.timestamp: the order's salt and its extension
builtOrder(builder, calculator, maker, makingAmount, timestamp, spreadParams) ==
    [salt |-> orderSalt(builder, calculator,
                        extensionBytes(builder,
                            builderSegments(builder, calculator, spreadParams)),
                        <<timestamp, maker, makingAmount>>),
     entropy |-> <<timestamp, maker, makingAmount>>,
     extension |-> extensionBytes(builder,
                       builderSegments(builder, calculator, spreadParams))]

\* the orders the tests build
OrderMakers == {"alice", "bob"}
OrderMakingAmounts == {1, 10000}
OrderParams ==
    {SpreadParams(50, 200, 200, 0, TRUE), SpreadParams(50, 200, 300, 1, FALSE),
     SpreadParams(500, 200, 20000, 2, FALSE)}

\* a test builds an order
BuildOrder ==
    /\ sdk = Idle
    /\ \E builder \in OrderBuilders, calculator \in CalculatorAddresses,
          maker \in OrderMakers, makingAmount \in OrderMakingAmounts,
          p \in OrderParams :
         sdk' = [op |-> "buildOrder", builder |-> builder,
                 orders |-> <<builtOrder(builder, calculator, maker, makingAmount,
                                         now, p)>>]
    /\ UNCHANGED <<chainVars, call>>

\* the same test builds a second order
BuildSecondOrder ==
    /\ sdk.op = "buildOrder"
    /\ Len(sdk.orders) = 1
    /\ \E calculator \in CalculatorAddresses,
          maker \in OrderMakers, makingAmount \in OrderMakingAmounts,
          p \in OrderParams :
         sdk' = [sdk EXCEPT !.orders =
                   Append(@, builtOrder(sdk.builder, calculator, maker,
                                        makingAmount, now, p))]
    /\ UNCHANGED <<chainVars, call>>

NextOrder ==
    \/ BuildOrder
    \/ BuildSecondOrder
    \/ Discard

SpecOrder == Init /\ [][NextOrder]_vars

----------------------------------------------------------------------------
(* LimitOrderWithVolatility: the preview methods of the SDK, in the          *)
(* revisions part_001 and part_002.  Amounts are bigint: no word bound.      *)

PreviewRevisions == {"part_001", "part_002"}

\* calcTakingAmount / calcMakingAmount of amounts.js: the proportional share
\* of the order, truncating; a bigint division by zero throws
calcTakingAmount(swapMakerAmount, orderMakerAmount, orderTakerAmount) ==
    IF orderMakerAmount = 0 THEN Revert("RangeError: Division by zero")
    ELSE Ok((swapMakerAmount * orderTakerAmount) \div orderMakerAmount)

calcMakingAmount(swapTakerAmount, orderMakerAmount, orderTakerAmount) ==
    IF orderTakerAmount = 0 THEN Revert("RangeError: Division by zero")
    ELSE Ok((swapTakerAmount * orderMakerAmount) \div orderTakerAmount)

\* VolatilitySpreadExtension.previewVolatilitySpread once contract.previewSpread
\* has answered with result
previewVolatilitySpread(hasProvider, result) ==
    IF ~hasProvider
    THEN Revert("Provider not available - pass provider during construction")
    ELSE IF ~result.ok THEN Revert("Failed to preview volatility")
    ELSE Ok([currentVolatility |-> result.val[1], dynamicSpread |-> result.val[2]])

\* getTakingAmountPreview: part_001 awaits the preview outside any try block,
\* part_002 catches its failure and returns the base amount
getTakingAmountPreview(revision, takingAmount, preview) ==
    IF ~takingAmount.ok THEN takingAmount
    ELSE IF preview.ok
    THEN Ok(takingAmount.val
              + (takingAmount.val * preview.val.dynamicSpread) \div 10000)
    ELSE IF revision = "part_001" THEN preview
    ELSE Ok(takingAmount.val)

\* getMakingAmountPreview: both revisions catch the failure
getMakingAmountPreview(makingAmount, preview) ==
    IF ~makingAmount.ok THEN makingAmount
    ELSE IF preview.ok
    THEN Ok(makingAmount.val
              - (makingAmount.val * preview.val.dynamicSpread) \div 10000)
    ELSE Ok(makingAmount.val)

\* getVolatilitySpread
getVolatilitySpread(spreadParams, preview) ==
    IF preview.ok THEN Ok(preview.val.dynamicSpread)
    ELSE Ok(spreadParams.baseSpreadBps)

\* getCurrentVolatility
getCurrentVolatility(preview) ==
    IF preview.ok THEN Ok(preview.val.currentVolatility)
    ELSE Ok(0)

\* the orders previewed: amounts small enough for the products to be exact
PreviewOrders == {o \in Orders : o.makingAmount < UINT_MAX /\ o.takingAmount < UINT_MAX}

\* a LimitOrderWithVolatility is asked for the taking amount of a fill
GetTakingAmountPreview ==
    /\ sdk = Idle
    /\ \E revision \in PreviewRevisions, order \in PreviewOrders, p \in OrderParams,
          hasProvider \in BOOLEAN, makingAmount \in FillAmounts :
         sdk' = [op |-> "getTakingAmountPreview", revision |-> revision,
                 order |-> order, params |-> p, amount |-> makingAmount,
                 preview |-> previewVolatilitySpread(hasProvider,
                                 previewSpread(targetToken(order, p), p)),
                 result |-> getTakingAmountPreview(revision,
                     calcTakingAmount(makingAmount, order.makingAmount,
                                      order.takingAmount),
                     previewVolatilitySpread(hasProvider,
                         previewSpread(targetToken(order, p), p)))]
    /\ UNCHANGED <<chainVars, call>>

GetMakingAmountPreview ==
    /\ sdk = Idle
    /\ \E revision \in PreviewRevisions, order \in PreviewOrders, p \in OrderParams,
          hasProvider \in BOOLEAN, takingAmount \in FillAmounts :
         sdk' = [op |-> "getMakingAmountPreview", revision |-> revision,
                 order |-> order, params |-> p, amount |-> takingAmount,
                 preview |-> previewVolatilitySpread(hasProvider,
                                 previewSpread(targetToken(order, p), p)),
                 result |-> getMakingAmountPreview(
                     calcMakingAmount(takingAmount, order.makingAmount,
                                      order.takingAmount),
                     previewVolatilitySpread(hasProvider,
                         previewSpread(targetToken(order, p), p)))]
    /\ UNCHANGED <<chainVars, call>>

GetVolatilitySpread ==
    /\ sdk = Idle
    /\ \E revision \in PreviewRevisions, order \in PreviewOrders, p \in OrderParams,
          hasProvider \in BOOLEAN :
         sdk' = [op |-> "getVolatilitySpread", revision |-> revision,
                 order |-> order, params |-> p,
                 preview |-> previewVolatilitySpread(hasProvider,
                                 previewSpread(targetToken(order, p), p)),
                 result |-> getVolatilitySpread(p,
                     previewVolatilitySpread(hasProvider,
                         previewSpread(targetToken(order, p), p)))]
    /\ UNCHANGED <<chainVars, call>>

GetCurrentVolatility ==
    /\ sdk = Idle
    /\ \E revision \in PreviewRevisions, order \in PreviewOrders, p \in OrderParams,
          hasProvider \in BOOLEAN :
         sdk' = [op |-> "getCurrentVolatility", revision |-> revision,
                 order |-> order, params |-> p,
                 preview |-> previewVolatilitySpread(hasProvider,
                                 previewSpread(targetToken(order, p), p)),
                 result |-> getCurrentVolatility(
                     previewVolatilitySpread(hasProvider,
                         previewSpread(targetToken(order, p), p)))]
    /\ UNCHANGED <<chainVars, call>>

NextPreview ==
    \/ GetTakingAmountPreview
    \/ GetMakingAmountPreview
    \/ GetVolatilitySpread
    \/ GetCurrentVolatility
    \/ Discard

\* the previews run against the deployed configuration of InitHistory:
\* WETH and USDC configured, DAI not
SpecPreview == InitHistory /\ [][NextPreview]_vars

----------------------------------------------------------------------------
(* VolatilityOrderManager: the local order store of the SDK.  Its methods    *)
(* are async: a call runs to its next await, and any other call may run      *)
(* before it resumes.  The manager lives in sdk, with memory storage.        *)

OrderStatus == {"active", "filled", "cancelled", "expired"}

\* buildLimitOrderHash of the orders the manager builds; buildLimitOrder draws
\* a salt for each order, so an order hash is not one stored before
OrderHashes == {"0xa1", "0xb2"}

\* the calls in flight at once, and the transactions sent to the protocol
MaxTasks == 2
MaxSubmitted == 2
Tasks == 1..MaxTasks

NoTask == [method |-> "none"]
NoSettlement == [task |-> 0, method |-> "none", result |-> Ok("none")]

\* the constructor: empty maps, one empty set for every status
newManager ==
    [op |-> "VolatilityOrderManager",
     orders |-> [h \in {} |-> "active"],
     ordersByMaker |-> [m \in {} |-> {}],
     makers |-> [h \in {} |-> "alice"],
     ordersByStatus |-> [s \in OrderStatus |-> {}],
     tasks |-> [t \in Tasks |-> NoTask],
     submitted |-> <<>>,
     settled |-> NoSettlement]

\* storeOrder: the order under its hash, the hash added to the set of its
\* maker and to the set of its status
storeOrder(m, orderHash, maker, status) ==
    [m EXCEPT
       !.orders = (orderHash :> status) @@ @,
       !.makers = (orderHash :> maker) @@ @,
       !.ordersByMaker =
           (maker :> ((IF maker \in DOMAIN @ THEN @[maker] ELSE {})
                         \cup {orderHash})) @@ @,
       !.ordersByStatus = [@ EXCEPT ![status] = @ \cup {orderHash}]]

\* updateOrderStatus: nothing for an unknown hash; else the hash leaves the
\* set of the order's status, joins the set of newStatus, and the order takes
\* newStatus
updateOrderStatus(m, orderHash, newStatus) ==
    IF orderHash \notin DOMAIN m.orders THEN m
    ELSE [m EXCEPT
            !.ordersByStatus =
                [s \in OrderStatus |->
                    IF s = newStatus THEN @[s] \cup {orderHash}
                    ELSE IF s = m.orders[orderHash] THEN @[s] \ {orderHash}
                    ELSE @[s]],
            !.orders = [@ EXCEPT ![orderHash] = newStatus]]

\* the promise of task t settles and the task ends
settle(m, t, result) ==
    [m EXCEPT !.settled = [task |-> t, method |-> m.tasks[t].method,
                           result |-> result],
              !.tasks = [@ EXCEPT ![t] = NoTask]]

\* a new call takes the first free slot
FreeTasks == {t \in Tasks : /\ sdk.tasks[t] = NoTask
                            /\ \A u \in 1..(t - 1) : sdk.tasks[u] # NoTask}
Creating == {t \in Tasks : sdk.tasks[t].method = "createOrder"}
IsManager == sdk.op = "VolatilityOrderManager"

ConstructManager ==
    /\ sdk = Idle
    /\ sdk' = newManager
    /\ UNCHANGED <<chainVars, call>>

\* createOrder up to `await extension.previewVolatilitySpread()`
CreateOrder ==
    /\ IsManager
    /\ Cardinality(DOMAIN sdk.orders) + Cardinality(Creating)
          < Cardinality(OrderHashes)
    /\ \E t \in FreeTasks, maker \in OrderMakers :
         sdk' = [sdk EXCEPT !.tasks =
                   [@ EXCEPT ![t] = [method |-> "createOrder", maker |-> maker,
                                     pc |-> "previewVolatilitySpread"]]]
    /\ UNCHANGED <<chainVars, call>>

\* the preview resolved or threw (caught): the order is built and
\* createOrder runs up to `await wallet.signTypedData(...)`
CreateOrderSign ==
    /\ IsManager
    /\ \E t \in Tasks :
         /\ sdk.tasks[t].method = "createOrder"
         /\ sdk.tasks[t].pc = "previewVolatilitySpread"
         /\ sdk' = [sdk EXCEPT !.tasks =
                      [@ EXCEPT ![t] = [@ EXCEPT !.pc = "signTypedData"]]]
    /\ UNCHANGED <<chainVars, call>>

\* the wallet signed: the order is stored ACTIVE under its hash and returned
CreateOrderStore ==
    /\ IsManager
    /\ \E t \in Tasks, orderHash \in OrderHashes \ DOMAIN sdk.orders :
         /\ sdk.tasks[t].method = "createOrder"
         /\ sdk.tasks[t].pc = "signTypedData"
         /\ sdk' = settle(storeOrder(sdk, orderHash, sdk.tasks[t].maker,
                                     "active"),
                          t, Ok(orderHash))
    /\ UNCHANGED <<chainVars, call>>

\* the wallet refused to sign: createOrder throws, nothing is stored
CreateOrderSignRejected ==
    /\ IsManager
    /\ \E t \in Tasks :
         /\ sdk.tasks[t].method = "createOrder"
         /\ sdk.tasks[t].pc = "signTypedData"
         /\ sdk' = settle(sdk, t, Revert("signTypedData rejected"))
    /\ UNCHANGED <<chainVars, call>>

ProtocolCall == [fillOrder |-> "fillLimitOrder", cancelOrder |-> "cancelLimitOrder"]

\* `Order is ${status}, cannot fill` / `cannot cancel`
OrderIs == [filled |-> "Order is filled", cancelled |-> "Order is cancelled",
            expired |-> "Order is expired"]

\* the first await of fillOrder and cancelOrder, `await this.getOrder(..)`:
\* getOrder has read this.orders, the caller resumes later
awaitGetOrder(m, t, method, orderHash) ==
    [m EXCEPT !.tasks =
       [@ EXCEPT ![t] = [method |-> method, orderHash |-> orderHash,
                         found |-> orderHash \in DOMAIN m.orders,
                         pc |-> "getOrder"]]]

\* the transaction goes to the protocol and the call awaits the response
awaitProtocol(m, t) ==
    [m EXCEPT
       !.submitted = Append(@, [call |-> ProtocolCall[m.tasks[t].method],
                                orderHash |-> m.tasks[t].orderHash,
                                outcome |-> "pending"]),
       !.tasks = [@ EXCEPT ![t] =
                    [@ EXCEPT !.pc = ProtocolCall[m.tasks[t].method]]]]

\* task t resumes from getOrder
Resumes(t, method) ==
    /\ sdk.tasks[t].method = method
    /\ sdk.tasks[t].pc = "getOrder"

\* task t awaits transaction i
Awaits(t, method, i) ==
    /\ sdk.tasks[t].method = method
    /\ sdk.tasks[t].pc = ProtocolCall[method]
    /\ sdk.submitted[i].outcome = "pending"
    /\ sdk.submitted[i].call = ProtocolCall[method]
    /\ sdk.submitted[i].orderHash = sdk.tasks[t].orderHash

\* fillOrder up to `await this.getOrder(orderHash)`
FillOrder ==
    /\ IsManager
    /\ \E t \in FreeTasks, orderHash \in OrderHashes :
         sdk' = awaitGetOrder(sdk, t, "fillOrder", orderHash)
    /\ UNCHANGED <<chainVars, call>>

\* fillOrder resumes with no order, or with one that is not ACTIVE: it throws
FillOrderThrows ==
    /\ IsManager
    /\ \E t \in Tasks :
         /\ Resumes(t, "fillOrder")
         /\ \/ /\ ~sdk.tasks[t].found
               /\ sdk' = settle(sdk, t, Revert("Order not found"))
            \/ /\ sdk.tasks[t].found
               /\ sdk.orders[sdk.tasks[t].orderHash] # "active"
               /\ sdk' = settle(sdk, t,
                                Revert(OrderIs[sdk.orders[
                                                 sdk.tasks[t].orderHash]]))
    /\ UNCHANGED <<chainVars, call>>

\* the order is ACTIVE: fillLimitOrder goes to the protocol
FillOrderSubmits ==
    /\ IsManager
    /\ Len(sdk.submitted) < MaxSubmitted
    /\ \E t \in Tasks :
         /\ Resumes(t, "fillOrder")
         /\ sdk.tasks[t].found
         /\ sdk.orders[sdk.tasks[t].orderHash] = "active"
         /\ sdk' = awaitProtocol(sdk, t)
    /\ UNCHANGED <<chainVars, call>>

\* the transaction response arrived: updateOrderStatus(FILLED), return
FillOrderDone ==
    /\ IsManager
    /\ \E t \in Tasks, i \in 1..Len(sdk.submitted) :
         /\ Awaits(t, "fillOrder", i)
         /\ sdk' = settle(updateOrderStatus(
                              [sdk EXCEPT !.submitted[i].outcome = "sent"],
                              sdk.tasks[t].orderHash, "filled"),
                          t, Ok(sdk.tasks[t].orderHash))
    /\ UNCHANGED <<chainVars, call>>

\* fillLimitOrder rejected: fillOrder throws, the status stays
FillOrderRejected ==
    /\ IsManager
    /\ \E t \in Tasks, i \in 1..Len(sdk.submitted) :
         /\ Awaits(t, "fillOrder", i)
         /\ sdk' = settle([sdk EXCEPT !.submitted[i].outcome = "rejected"],
                          t, Revert("fillLimitOrder rejected"))
    /\ UNCHANGED <<chainVars, call>>

\* cancelOrder up to `await this.getOrder(orderHash)`
CancelOrder ==
    /\ IsManager
    /\ \E t \in FreeTasks, orderHash \in OrderHashes :
         sdk' = awaitGetOrder(sdk, t, "cancelOrder", orderHash)
    /\ UNCHANGED <<chainVars, call>>

\* cancelOrder resumes with no order, or with one that is not ACTIVE
CancelOrderThrows ==
    /\ IsManager
    /\ \E t \in Tasks :
         /\ Resumes(t, "cancelOrder")
         /\ \/ /\ ~sdk.tasks[t].found
               /\ sdk' = settle(sdk, t, Revert("Order not found"))
            \/ /\ sdk.tasks[t].found
               /\ sdk.orders[sdk.tasks[t].orderHash] # "active"
               /\ sdk' = settle(sdk, t,
                                Revert(OrderIs[sdk.orders[
                                                 sdk.tasks[t].orderHash]]))
    /\ UNCHANGED <<chainVars, call>>

\* the order is ACTIVE: cancelLimitOrder goes to the protocol
CancelOrderSubmits ==
    /\ IsManager
    /\ Len(sdk.submitted) < MaxSubmitted
    /\ \E t \in Tasks :
         /\ Resumes(t, "cancelOrder")
         /\ sdk.tasks[t].found
         /\ sdk.orders[sdk.tasks[t].orderHash] = "active"
         /\ sdk' = awaitProtocol(sdk, t)
    /\ UNCHANGED <<chainVars, call>>

\* the transaction response arrived: updateOrderStatus(CANCELLED), return
CancelOrderDone ==
    /\ IsManager
    /\ \E t \in Tasks, i \in 1..Len(sdk.submitted) :
         /\ Awaits(t, "cancelOrder", i)
         /\ sdk' = settle(updateOrderStatus(
                              [sdk EXCEPT !.submitted[i].outcome = "sent"],
                              sdk.tasks[t].orderHash, "cancelled"),
                          t, Ok(sdk.tasks[t].orderHash))
    /\ UNCHANGED <<chainVars, call>>

\* cancelLimitOrder rejected: cancelOrder throws, the status stays
CancelOrderRejected ==
    /\ IsManager
    /\ \E t \in Tasks, i \in 1..Len(sdk.submitted) :
         /\ Awaits(t, "cancelOrder", i)
         /\ sdk' = settle([sdk EXCEPT !.submitted[i].outcome = "rejected"],
                          t, Revert("cancelLimitOrder rejected"))
    /\ UNCHANGED <<chainVars, call>>

NextManager ==
    \/ ConstructManager
    \/ CreateOrder
    \/ CreateOrderSign
    \/ CreateOrderStore
    \/ CreateOrderSignRejected
    \/ FillOrder
    \/ FillOrderThrows
    \/ FillOrderSubmits
    \/ FillOrderDone
    \/ FillOrderRejected
    \/ CancelOrder
    \/ CancelOrderThrows
    \/ CancelOrderSubmits
    \/ CancelOrderDone
    \/ CancelOrderRejected

SpecManager == Init /\ [][NextManager]_vars

----------------------------------------------------------------------------
(* Properties of the calculator, checked under Spec *)

IsGetterCall == call.op \in {"getTakingAmount", "getMakingAmount"}

\* the SpreadParams a getter call decoded from its extra data
CallDecoded == _decodeExtraData(ExtraDataBytes(call.extraData))
CallParams == CallDecoded.val
CallTarget == targetToken(call.order, CallParams)

\* the volatility and the dynamic spread the getter call was served with
CallVolatility == getTokenVolatility(CallTarget, CallParams.volatilityWindow).val
CallSpread ==
    _calculateDynamicSpread(CallParams.baseSpreadBps, CallParams.volatilityMultiplier,
                            CallParams.maxSpreadBps, CallVolatility).val

\* the proportional amounts, in unbounded arithmetic
BaseTaking == (call.amount * call.order.takingAmount) \div call.order.makingAmount
BaseMaking == (call.amount * call.order.makingAmount) \div call.order.takingAmount

\* every value held by the model fits the modelled word
TypeOK ==
    /\ IsGetterCall /\ CallDecoded.ok =>
          /\ CallParams.baseSpreadBps <= UINT_MAX
          /\ CallParams.volatilityMultiplier <= UINT_MAX
          /\ CallParams.maxSpreadBps <= UINT_MAX
    /\ IsGetterCall /\ call.result.ok => call.result.val \in 0..UINT_MAX

\* C1: getTakingAmount returns base + floor(base * spread / 10000) with
\* base = floor(m * takingAmount / makingAmount); the result is never below
\* base and the addition does not wrap around.
C1_TakingAmountIsBasePlusSpread ==
    (call.op = "getTakingAmount" /\ call.result.ok /\ call.order.makingAmount > 0) =>
        /\ call.result.val = BaseTaking + (BaseTaking * CallSpread) \div BASIS_POINTS
        /\ call.result.val >= BaseTaking

\* C2: getMakingAmount returns base - floor(base * spread / 10000) with
\* base = floor(t * makingAmount / takingAmount); the result never exceeds
\* base and the subtraction does not wrap around.
C2_MakingAmountIsBaseMinusSpread ==
    (call.op = "getMakingAmount" /\ call.result.ok /\ call.order.takingAmount > 0) =>
        /\ call.result.val = BaseMaking - (BaseMaking * CallSpread) \div BASIS_POINTS
        /\ call.result.val <= BaseMaking

\* C3: for SpreadParams accepted by encodeSpreadParams, the dynamic spread
\* lies between baseSpreadBps and maxSpreadBps.
C3_SpreadBetweenBaseAndMax ==
    (call.op = "previewSpread" /\ call.result.ok /\ encodeSpreadParams(call.params).ok) =>
        /\ call.params.baseSpreadBps <= call.result.val[2]
        /\ call.result.val[2] <= call.params.maxSpreadBps

\* C4: the dynamic spread equals
\* min(baseSpreadBps + floor(floor(vol / 100) * multiplier / 100), maxSpreadBps)
\* for every input.
C4_SpreadFormula ==
    (call.op = "previewSpread" /\ call.result.ok) =>
        call.result.val[2] =
            min(call.params.baseSpreadBps
                  + ((call.result.val[1] \div 100) * call.params.volatilityMultiplier) \div 100,
                call.params.maxSpreadBps)

\* C5: on the fill path a getter whose target token (maker asset if
\* useTargetToken, else taker asset) is not supported fails with
\* TokenNotSupported and returns no amount, for every window and params.
C5_UnsupportedTargetReverts ==
    (IsGetterCall /\ CallDecoded.ok /\ ~tokenConfigs[CallTarget].isSupported) =>
        /\ ~call.result.ok
        /\ call.result.err = "TokenNotSupported"

\* C5 witness: a getter was called for an order whose maker asset is
\* supported and whose taker asset, the target, is not, with the blended
\* window, and failed with TokenNotSupported.
C5_Witness ==
    /\ call.op = "getMakingAmount"
    /\ CallDecoded.ok
    /\ ~CallParams.useTargetToken
    /\ CallParams.volatilityWindow = 2
    /\ tokenConfigs[call.order.makerAsset].isSupported
    /\ ~tokenConfigs[call.order.takerAsset].isSupported
    /\ call.order.takingAmount > 0
    /\ call.result.err = "TokenNotSupported"

\* C8: encodeSpreadParams returns bytes only for baseSpreadBps <=
\* maxSpreadBps <= 1000, multiplier <= 1000 and window in {0,1,2}; every
\* other input fails with SpreadTooHigh or InvalidParam.
C8_EncodeValidatesParams ==
    (call.op = "encodeSpreadParams") =>
        IF call.result.ok
        THEN /\ call.params.baseSpreadBps <= call.params.maxSpreadBps
             /\ call.params.maxSpreadBps <= MAX_SPREAD
             /\ call.params.volatilityMultiplier <= MAX_MULTIPLIER
             /\ call.params.volatilityWindow \in {0, 1, 2}
        ELSE call.result.err \in {"SpreadTooHigh", "InvalidParam"}

\* C17: addTokenFeeds called by anyone but the admin fixed at construction
\* fails with RestrictedOperation and changes no TokenConfig; the admin never
\* changes, and a TokenConfig changes only in a successful addTokenFeeds
\* call of the admin.
C17_OnlyAdminConfigures ==
    /\ [](call.op = "addTokenFeeds" /\ call.sender # admin =>
            /\ call.result = Revert("RestrictedOperation")
            /\ tokenConfigs = call.before)
    /\ [][/\ admin' = admin
          /\ tokenConfigs' # tokenConfigs =>
                /\ call'.op = "addTokenFeeds"
                /\ call'.sender = admin
                /\ call'.result.ok]_vars

\* C17 witness: after the admin configured WETH, another account called
\* addTokenFeeds with well-formed arrays for a token not yet configured,
\* and was refused.
C17_Witness ==
    /\ call.op = "addTokenFeeds"
    /\ call.sender # admin
    /\ Len(call.priceFeeds) = Len(call.tokens)
    /\ tokenConfigs["WETH"].isSupported
    /\ \E i \in 1..Len(call.tokens) : ~tokenConfigs[call.tokens[i]].isSupported
    /\ call.result.err = "RestrictedOperation"

\* the TokenConfig row i of an addTokenFeeds call
CallRow(i) ==
    [priceFeed |-> call.priceFeeds[i],
     volatilityOverride |-> call.volatilityOverrides[i],
     isStablecoin |-> call.isStablecoin[i],
     isSupported |-> TRUE]

\* the tokens an addTokenFeeds call lists
CallListed == {call.tokens[i] : i \in 1..Len(call.tokens)}

\* an addTokenFeeds call succeeded and its transaction is the last step taken
AddTokenFeedsDone == call.op = "addTokenFeeds" /\ call.result.ok

\* C25 as stated: a successful addTokenFeeds sets, for every index i, the
\* TokenConfig of tokens[i] to exactly (priceFeeds[i], volatilityOverrides[i],
\* isStablecoin[i], isSupported = true), and leaves the TokenConfig of every
\* unlisted token and the PriceHistory of every token unchanged.  Checked
\* under SpecConfig.
C25_EveryRowIsStored ==
    AddTokenFeedsDone =>
        /\ \A i \in 1..Len(call.tokens) : tokenConfigs[call.tokens[i]] = CallRow(i)
        /\ \A t \in Tokens \ CallListed : tokenConfigs[t] = call.before[t]
        /\ priceHistories = [t \in Tokens |->
                                IF t = "WETH" THEN AgedHistory ELSE NoHistory]

\* C25, amended: a successful addTokenFeeds sets the TokenConfig of every
\* listed token to exactly the row of its last occurrence in tokens, keeping
\* no field of the previous config, and leaves the TokenConfig of every
\* unlisted token and the PriceHistory of every token unchanged.
C25_LastRowIsStored ==
    AddTokenFeedsDone =>
        /\ \A i \in 1..Len(call.tokens) :
              (\A j \in (i + 1)..Len(call.tokens) : call.tokens[j] # call.tokens[i])
                 => tokenConfigs[call.tokens[i]] = CallRow(i)
        /\ \A t \in Tokens \ CallListed : tokenConfigs[t] = call.before[t]
        /\ priceHistories = [t \in Tokens |->
                                IF t = "WETH" THEN AgedHistory ELSE NoHistory]

\* the admin replaced the config of WETH, which had an override and a
\* recorded history, by one without override, in a batch that also
\* configured USDC and left DAI alone
C25_Witness ==
    /\ AddTokenFeedsDone
    /\ call.tokens = <<"WETH", "USDC">>
    /\ call.before["WETH"].volatilityOverride # 0
    /\ call.volatilityOverrides[1] = 0
    /\ tokenConfigs["WETH"].volatilityOverride = 0
    /\ priceHistories["WETH"] = AgedHistory
    /\ ~tokenConfigs["DAI"].isSupported

\* the dynamicSpread previewSpread returns for the target token of the getter
\* call, with the params the call decoded, in the state of the call
PreviewedSpread == previewSpread(CallTarget, CallParams).val[2]

\* the spread recovered from the fill as the integration test does:
\* ((takingAmount - baseAmount) * 10000) / baseAmount
RecoveredSpread == ((call.result.val - BaseTaking) * BASIS_POINTS) \div BaseTaking

\* a fill by getTakingAmount with a base taking amount B > 0
IsTakingFill ==
    /\ call.op = "getTakingAmount"
    /\ call.result.ok
    /\ call.order.makingAmount > 0
    /\ BaseTaking > 0

C24_SpreadMonotoneInVolatility ==
    (call.op = "_calculateDynamicSpread") =>
        /\ (call.at1.dynamicSpread.ok /\ call.at2.dynamicSpread.ok)
              => call.at1.dynamicSpread.val <= call.at2.dynamicSpread.val
        /\ (call.at1.takingAmount.ok /\ call.at2.takingAmount.ok)
              => call.at1.takingAmount.val <= call.at2.takingAmount.val
        /\ (call.at1.makingAmount.ok /\ call.at2.makingAmount.ok)
              => call.at1.makingAmount.val >= call.at2.makingAmount.val

----------------------------------------------------------------------------
(* Properties of the volatility estimator, checked under SpecHistory *)

\* a previewVolatility call for a supported token that is neither a
\* stablecoin nor pinned by an override
IsEstimatedCall ==
    /\ call.op = "previewVolatility"
    /\ tokenConfigs[call.token].isSupported
    /\ ~tokenConfigs[call.token].isStablecoin
    /\ tokenConfigs[call.token].volatilityOverride = 0

\* the number of adjacent pairs of non-zero slots of a ring of `size` slots
ValidSamples(prices, size) ==
    Cardinality({i \in 1..(size - 1) : prices[i] # 0 /\ prices[i - 1] # 0})

\* the ring the window of the call selects
SelectedSamples ==
    IF call.window = 0
    THEN ValidSamples(priceHistories[call.token].hourlyPrices, HOURLY_SLOTS)
    ELSE ValidSamples(priceHistories[call.token].dailyPrices, DAILY_SLOTS)

\* C9: for a supported, non-stablecoin token without override, when the ring
\* selected by the window (hourly for Short, daily for Long) holds fewer than
\* 2 valid samples, or nothing was ever recorded, the volatility is exactly
\* the default 3000, whatever the recorded prices.
C9_DefaultBelowTwoSamples ==
    (IsEstimatedCall /\ call.window \in {0, 1} /\ SelectedSamples < 2) =>
        call.result = Ok(DEFAULT_VOLATILITY)

\* the realized volatility of the daily ring by the algorithm of the hourly
\* ring: the integer square root of the variance of the adjacent-pair
\* absolute returns
RealizedDailyVolatility(token) ==
    volatilityFromSums(VolatilityLoop(priceHistories[token].dailyPrices, 1,
                                      DAILY_SLOTS, <<0, 0, 0>>))

\* C10: for a supported, non-stablecoin token without override and with
\* recorded daily history, the Long volatility is the realized volatility of
\* the 7-slot daily ring scaled by 1910/100.
C10_LongIsScaledDailyVolatility ==
    (/\ IsEstimatedCall
     /\ call.window = 1
     /\ priceHistories[call.token].lastDailyUpdate # 0
     /\ RealizedDailyVolatility(call.token).ok) =>
        /\ call.result.ok
        /\ call.result.val =
              (RealizedDailyVolatility(call.token).val * ANNUALIZE_NUM)
                 \div ANNUALIZE_DEN

\* C11: a manual override always wins: for a supported token with
\* volatilityOverride > 0 the volatility is exactly the override, for every
\* window, stablecoin or not, whatever the price history holds.
C11_OverrideWins ==
    (/\ call.op = "previewVolatility"
     /\ tokenConfigs[call.token].isSupported
     /\ tokenConfigs[call.token].volatilityOverride > 0) =>
        call.result = Ok(tokenConfigs[call.token].volatilityOverride)

\* C11 witness: the volatility of a stablecoin with an override and with
\* recorded prices was previewed and is the override.
C11_Witness ==
    /\ call.op = "previewVolatility"
    /\ tokenConfigs[call.token].isStablecoin
    /\ tokenConfigs[call.token].volatilityOverride > 0
    /\ priceHistories[call.token].lastHourlyUpdate # 0
    /\ priceHistories[call.token].lastDailyUpdate # 0
    /\ call.result = Ok(tokenConfigs[call.token].volatilityOverride)

\* C12: a supported stablecoin without override has volatility exactly 100,
\* for every window and in every reachable state, whatever price updates
\* were recorded for it.
C12_StablecoinIsConstant ==
    (/\ call.op = "previewVolatility"
     /\ tokenConfigs[call.token].isSupported
     /\ tokenConfigs[call.token].isStablecoin
     /\ tokenConfigs[call.token].volatilityOverride = 0) =>
        call.result = Ok(STABLECOIN_VOLATILITY)

\* C12 witness: the Long volatility of a stablecoin without override, with a
\* recorded price in both rings, was previewed and is 100.
C12_Witness ==
    /\ call.op = "previewVolatility"
    /\ call.window = 1
    /\ tokenConfigs[call.token].isStablecoin
    /\ tokenConfigs[call.token].volatilityOverride = 0
    /\ priceHistories[call.token].lastHourlyUpdate # 0
    /\ priceHistories[call.token].lastDailyUpdate # 0
    /\ call.result = Ok(STABLECOIN_VOLATILITY)

\* the values the Short and the Long window return in the state of the call
ShortVolatility == getTokenVolatility(call.token, 0)
LongVolatility == getTokenVolatility(call.token, 1)

\* C13: for a supported, non-stablecoin token without override, the Blended
\* volatility is floor((70 * s + 30 * l) / 100), with s and l the values the
\* Short and the Long window return in the same state.
C13_BlendedIsWeightedMean ==
    (/\ IsEstimatedCall
     /\ call.window = 2
     /\ ShortVolatility.ok
     /\ LongVolatility.ok) =>
        call.result =
           Ok((70 * ShortVolatility.val + 30 * LongVolatility.val) \div 100)

\* C13 witness: a Blended preview in a state where the Short figure is
\* computed from the hourly ring and differs from the Long figure.
C13_Witness ==
    /\ IsEstimatedCall
    /\ call.window = 2
    /\ call.result.ok
    /\ ValidSamples(priceHistories[call.token].hourlyPrices, HOURLY_SLOTS) >= 2
    /\ ShortVolatility.val # DEFAULT_VOLATILITY
    /\ ShortVolatility.val > 0
    /\ ShortVolatility.val # LongVolatility.val

\* the hourly ring of the token of the call
CallHourly == priceHistories[call.token].hourlyPrices

\* the slots i = 1..23 whose pair (i - 1, i) holds two recorded prices
ValidPairs(prices) ==
    {i \in 1..(HOURLY_SLOTS - 1) : prices[i] # 0 /\ prices[i - 1] # 0}

\* R = |floor(p[i] * 10000 / p[i-1]) - 10000|
PairReturn(prices, i) ==
    IF (prices[i] * 10000) \div prices[i - 1] >= 10000
    THEN (prices[i] * 10000) \div prices[i - 1] - 10000
    ELSE 10000 - (prices[i] * 10000) \div prices[i - 1]

\* the sum of R (k = 1) or of R^2 (k = 2) over the pairs of S
RECURSIVE SumOfReturns(_, _, _)
SumOfReturns(prices, S, k) ==
    IF S = {} THEN 0
    ELSE LET i == CHOOSE j \in S : TRUE
         IN (IF k = 1 THEN PairReturn(prices, i)
                      ELSE PairReturn(prices, i) * PairReturn(prices, i))
              + SumOfReturns(prices, S \ {i}, k)

\* floor(S2 / n) - floor(S1 / n)^2
ShortVariance(prices) ==
    SumOfReturns(prices, ValidPairs(prices), 2) \div Cardinality(ValidPairs(prices))
      - (SumOfReturns(prices, ValidPairs(prices), 1)
           \div Cardinality(ValidPairs(prices))) ^ 2

\* a Short lookup for an estimated token with hourly history and n >= 2
IsShortEstimate ==
    /\ IsEstimatedCall
    /\ call.window = 0
    /\ priceHistories[call.token].lastHourlyUpdate # 0
    /\ Cardinality(ValidPairs(CallHourly)) >= 2

\* C26: short-window estimator: for a supported, non-stablecoin token
\* without override and with hourly history, the Short volatility is
\* isqrt(floor(S2 / n) - floor(S1 / n)^2), the returns R being taken over the
\* n >= 2 pairs of slots i = 1..23 with p[i] and p[i-1] both non-zero, S1 the
\* sum of R, S2 the sum of R^2; a pair with a zero slot contributes nothing.
C26_ShortWindowEstimator ==
    IsShortEstimate =>
        /\ call.result.ok
        /\ call.result.val * call.result.val <= ShortVariance(CallHourly)
        /\ ShortVariance(CallHourly) < (call.result.val + 1) * (call.result.val + 1)

\* a Short lookup on a ring of three recorded prices that moved, followed by
\* empty slots: two pairs, a volatility above zero
C26_Witness ==
    /\ IsShortEstimate
    /\ CallHourly[2] # 0
    /\ CallHourly[3] = 0
    /\ CallHourly[0] # CallHourly[1]
    /\ call.result.ok
    /\ call.result.val > 0

\* the hourly ring holds 24 recorded prices: at least 24 hourly writes
RingFull == \A i \in 0..(HOURLY_SLOTS - 1) : CallHourly[i] # 0

\* the prices of slots i - 1 and i were recorded by consecutive hourly
\* writes: writes fill the slots in order, so this fails only for the slot
\* under the cursor of a full ring, which holds the oldest price next to the
\* newest
ConsecutiveWrites(i) ==
    ~(RingFull /\ i = priceHistories[call.token].hourlyIndex)

\* C29: chronological adjacency: in every state reached by any number of
\* hourly updates, also after the hourly ring has wrapped, every return
\* sample used by the short-window estimator is computed from two prices
\* recorded in consecutive hourly writes.  Checked under SpecRing.
C29_ChronologicalAdjacency ==
    IsShortEstimate =>
        \A i \in ValidPairs(CallHourly) : ConsecutiveWrites(i)

\* C30: the short-window variance never underflows: for every hourly ring
\* with n >= 2 valid pairs floor(S2 / n) >= floor(S1 / n)^2, and a volatility
\* lookup on a supported token with recorded history returns a value
\* instead of reverting.  Checked under SpecEstimator.
C30_VarianceNeverUnderflows ==
    /\ IsShortEstimate =>
          SumOfReturns(CallHourly, ValidPairs(CallHourly), 2)
                \div Cardinality(ValidPairs(CallHourly))
             >= (SumOfReturns(CallHourly, ValidPairs(CallHourly), 1)
                   \div Cardinality(ValidPairs(CallHourly))) ^ 2
    /\ (/\ call.op = "previewVolatility"
        /\ tokenConfigs[call.token].isSupported
        /\ priceHistories[call.token].lastHourlyUpdate # 0) => call.result.ok

\* a Short lookup on a ring whose returns differ and whose mean is not an
\* integer: the floors of both quotients matter
C30_Witness ==
    /\ IsShortEstimate
    /\ SumOfReturns(CallHourly, ValidPairs(CallHourly), 1)
          % Cardinality(ValidPairs(CallHourly)) # 0
    /\ SumOfReturns(CallHourly, ValidPairs(CallHourly), 2)
          % Cardinality(ValidPairs(CallHourly)) # 0
    /\ call.result.ok
    /\ call.result.val > 0

----------------------------------------------------------------------------
(* Properties of updatePriceHistory, checked under SpecRing and SpecHistory *)

\* token t is in the batch of the call
InBatch(t) == \E i \in 1..Len(call.token) : call.token[i] = t

\* the price the call read for token t
PriceRead(t) == feeds[tokenConfigs[t].priceFeed].price

\* the hourly / daily part of a history
HourlyPart(h) == <<h.hourlyPrices, h.hourlyIndex, h.lastHourlyUpdate>>
DailyPart(h) == <<h.dailyPrices, h.dailyIndex, h.lastDailyUpdate>>

\* the hourly ring of t after the call is the ring before it with the price
\* written at the cursor, the cursor advanced and the time of the write noted
HourlyWrite(t) ==
    HourlyPart(priceHistories[t]) =
       <<[call.before[t].hourlyPrices EXCEPT
             ![call.before[t].hourlyIndex] = PriceRead(t)],
         (call.before[t].hourlyIndex + 1) % HOURLY_SLOTS,
         now>>

DailyWrite(t) ==
    DailyPart(priceHistories[t]) =
       <<[call.before[t].dailyPrices EXCEPT
             ![call.before[t].dailyIndex] = PriceRead(t)],
         (call.before[t].dailyIndex + 1) % DAILY_SLOTS,
         now>>

\* C14: cadence gating of updatePriceHistory: a token's hourly ring is
\* written only when now >= lastHourlyUpdate + 3600, and then the price goes
\* to the slot at hourlyIndex, hourlyIndex advances by one modulo 24 and
\* lastHourlyUpdate becomes now (daily ring: 86400, modulo 7); a call inside
\* the window leaves that ring as it was, rings of tokens outside the batch
\* are untouched, and the cursors stay in 0..23 and 0..6.
C14_CadenceGating ==
    /\ \A t \in Tokens :
          /\ priceHistories[t].hourlyIndex \in 0..(HOURLY_SLOTS - 1)
          /\ priceHistories[t].dailyIndex \in 0..(DAILY_SLOTS - 1)
    /\ call.op = "updatePriceHistory" =>
          \A t \in Tokens :
             /\ IF /\ call.result.ok
                   /\ InBatch(t)
                   /\ now >= call.before[t].lastHourlyUpdate + HOUR
                THEN HourlyWrite(t)
                ELSE HourlyPart(priceHistories[t]) = HourlyPart(call.before[t])
             /\ IF /\ call.result.ok
                   /\ InBatch(t)
                   /\ now >= call.before[t].lastDailyUpdate + DAY
                THEN DailyWrite(t)
                ELSE DailyPart(priceHistories[t]) = DailyPart(call.before[t])

\* C14 witness: an update of a batch naming WETH wrote the hourly ring at
\* the slot the cursor had wrapped to, over the oldest price, and left the
\* daily ring, still inside its window, and the other tokens as they were.
C14_Witness ==
    /\ call.op = "updatePriceHistory"
    /\ call.result.ok
    /\ InBatch("WETH")
    /\ call.before["WETH"].hourlyIndex = 0
    /\ call.before["WETH"].hourlyPrices[0] # 0
    /\ priceHistories["WETH"].hourlyPrices[0] # call.before["WETH"].hourlyPrices[0]
    /\ priceHistories["WETH"].hourlyIndex = 1
    /\ now < call.before["WETH"].lastDailyUpdate + DAY
    /\ DailyPart(priceHistories["WETH"]) = DailyPart(call.before["WETH"])
    /\ priceHistories["USDC"] = call.before["USDC"]

\* what makes updatePriceHistory reject a token
Unconfigured(t) == ~tokenConfigs[t].isSupported
NonPositivePrice(t) == tokenConfigs[t].isSupported /\ PriceRead(t) <= 0
StaleReading(t) ==
    /\ tokenConfigs[t].isSupported
    /\ PriceRead(t) > 0
    /\ now - feeds[tokenConfigs[t].priceFeed].updatedAt > MAX_STALENESS
Rejected(t) == Unconfigured(t) \/ NonPositivePrice(t) \/ StaleReading(t)

\* the i-th token of the batch is the first one the call rejects
FirstRejected(i) ==
    /\ Rejected(call.token[i])
    /\ \A j \in 1..(i - 1) : ~Rejected(call.token[j])

\* C15: updatePriceHistory fails with TokenNotSupported for an unconfigured
\* token, with InvalidVolatility for a feed price <= 0 and with
\* StaleVolatilityData for a reading older than 3600 s; whenever it fails
\* the PriceHistory of every token is unchanged, tokens processed earlier in
\* the batch included.
C15_UpdateErrorsAreAtomic ==
    (call.op = "updatePriceHistory") =>
        /\ \A i \in 1..Len(call.token) :
              FirstRejected(i) =>
                 /\ ~call.result.ok
                 /\ Unconfigured(call.token[i]) =>
                       call.result.err = "TokenNotSupported"
                 /\ NonPositivePrice(call.token[i]) =>
                       call.result.err = "InvalidVolatility"
                 /\ StaleReading(call.token[i]) =>
                       call.result.err = "StaleVolatilityData"
        /\ ~call.result.ok => priceHistories = call.before

\* C15 witness: a batch whose first token had a fresh price and an open
\* hourly window failed on its second token, and no history changed.
C15_Witness ==
    /\ call.op = "updatePriceHistory"
    /\ Len(call.token) = 2
    /\ call.token[1] # call.token[2]
    /\ ~Rejected(call.token[1])
    /\ now >= call.before[call.token[1]].lastHourlyUpdate + HOUR
    /\ NonPositivePrice(call.token[2])
    /\ call.result.err = "InvalidVolatility"
    /\ priceHistories = call.before

\* the feed reading of the token and its last recorded prices are all older
\* than the staleness bound
PriceDataIsStale(t) ==
    /\ now - feeds[tokenConfigs[t].priceFeed].updatedAt > MAX_STALENESS
    /\ now - priceHistories[t].lastHourlyUpdate > MAX_STALENESS
    /\ now - priceHistories[t].lastDailyUpdate > MAX_STALENESS

\* C16: a volatility lookup for a supported, non-stablecoin token without
\* override whose latest price data is older than the 1-hour staleness bound
\* does not fail and does not use the stale data: it returns the default
\* volatility 3000.
C16_StaleLookupReturnsDefault ==
    (IsEstimatedCall /\ PriceDataIsStale(call.token)) =>
        call.result = Ok(DEFAULT_VOLATILITY)

----------------------------------------------------------------------------
(* Properties of the SDK codec, checked under SpecCodec *)

\* C6: round trip of the SDK codec: for every valid SpreadParams p and
\* contract address a, fromExtension(new(a, p).build(), a) succeeds and
\* returns spreadParams equal to p in all five fields and address equal to a.
C6_CodecRoundTrip ==
    (sdk.op = "fromExtension" /\ sdk.source = "build"
       /\ sdk.expected = sdk.address) =>
        /\ sdk.result.ok
        /\ sdk.result.val.spreadParams = sdk.params
        /\ sdk.result.val.address = sdk.address

\* C7: in every getter segment built for an order, the bytes after the
\* 20-byte address are accepted by the on-chain _decodeExtraData, and decode
\* to the five SpreadParams fields that were encoded off-chain.
C7_EncoderMatchesOnChainDecoder ==
    (sdk.op = "decodeExtraData" /\ sdk.source = "build") =>
        /\ sdk.result.ok
        /\ sdk.result.val = sdk.params

\* the two errors of fromExtension
AddressMismatch == Revert("Extension contract address does not match expected address")
AsymmetricExtension ==
    Revert("Invalid extension, taking amount data must equal making amount data")

\* C18: fromExtension(extension, expected) throws the address-mismatch error
\* whenever the first 20 bytes of extension.makingAmountData differ from
\* expected, whatever else the extension holds, and returns no
\* VolatilitySpreadExtension then.
C18_AddressMismatchThrows ==
    (sdk.op = "fromExtension"
       /\ fromFirstBytes(sdk.extension.makingAmountData) # sdk.expected) =>
        sdk.result = AddressMismatch

\* fromExtension was handed a symmetric, well-formed extension that names
\* another contract than the expected one
C18_Witness ==
    /\ sdk.op = "fromExtension"
    /\ sdk.source = "received"
    /\ sdk.revision = "abi"
    /\ fromFirstBytes(sdk.extension.makingAmountData) # sdk.expected
    /\ sdk.extension.takingAmountData = sdk.extension.makingAmountData
    /\ abiCoderDecode("abi", afterAddress(sdk.extension.makingAmountData)).ok
    /\ ~sdk.result.ok

\* C19: symmetry of the getter segments: every extension built for a
\* volatility order has a taking-amount-getter segment byte-identical to its
\* making-amount-getter segment, both beginning with the configured
\* calculator address; and fromExtension fails on every extension whose two
\* segments differ, with the asymmetric-extension error once the leading
\* address is the expected one.
C19_GetterSegmentsSymmetric ==
    /\ (sdk.op \in {"build", "buildOrderWithVolatilitySpread"}) =>
          /\ sdk.extension.takingAmountData = sdk.extension.makingAmountData
          /\ fromFirstBytes(sdk.extension.makingAmountData) = sdk.address
    /\ (sdk.op = "fromExtension"
          /\ sdk.extension.takingAmountData # sdk.extension.makingAmountData) =>
          /\ ~sdk.result.ok
          /\ (fromFirstBytes(sdk.extension.makingAmountData) = sdk.expected
                => sdk.result = AsymmetricExtension)

\* C20: decoding SpreadParams, by fromExtension of the SDK and by
\* _decodeExtraData of the getter, fails on truncated parameter bytes and on
\* a volatilityWindow tag outside {0, 1, 2}: no SpreadParams with such a
\* window is returned.
C20_MalformedParamsRejected ==
    /\ (sdk.op = "fromExtension" /\ sdk.result.ok) =>
          /\ Len(afterAddress(sdk.extension.makingAmountData)) >= 160
          /\ sdk.result.val.spreadParams.volatilityWindow \in {0, 1, 2}
    /\ (sdk.op = "decodeExtraData" /\ sdk.result.ok) =>
          /\ Len(afterAddress(sdk.extension[sdk.segment])) >= 160
          /\ sdk.result.val.volatilityWindow \in {0, 1, 2}

----------------------------------------------------------------------------
(* Properties of the order builders, checked under SpecOrder *)

\* C21: salt derivation: for every order built with an extension the lower
\* 160 bits of order.salt are hash(extensionBytes) mod 2^160 and the upper 96
\* bits come only from the caller-supplied randomness: the same extension
\* gives the same lower 160 bits whatever the randomness, the same randomness
\* gives the same upper 96 bits whatever the extension, and two orders whose
\* extension bytes differ have different lower 160 bits.
C21_SaltDerivation ==
    (sdk.op = "buildOrder") =>
        \A i \in 1..Len(sdk.orders), j \in 1..Len(sdk.orders) :
            /\ sdk.orders[i].salt.lower160
                  = HashBits(sdk.orders[i].extension, "low160")
            /\ (sdk.orders[i].extension = sdk.orders[j].extension)
                  => sdk.orders[i].salt.lower160 = sdk.orders[j].salt.lower160
            /\ (sdk.orders[i].extension # sdk.orders[j].extension)
                  => sdk.orders[i].salt.lower160 # sdk.orders[j].salt.lower160
            /\ (sdk.orders[i].entropy = sdk.orders[j].entropy)
                  => sdk.orders[i].salt.upper96 = sdk.orders[j].salt.upper96

----------------------------------------------------------------------------
(* Properties of the SDK previews, checked under SpecPreview *)

PreviewMethods ==
    {"getTakingAmountPreview", "getMakingAmountPreview", "getVolatilitySpread",
     "getCurrentVolatility"}

\* C22: a failed preview is distinguishable from a successful one: whenever
\* the underlying previewSpread call fails, getTakingAmountPreview,
\* getMakingAmountPreview, getVolatilitySpread and getCurrentVolatility
\* surface a failure to their caller instead of returning a number.
C22_FailedPreviewSurfaces ==
    (sdk.op \in PreviewMethods /\ ~sdk.preview.ok) => ~sdk.result.ok

----------------------------------------------------------------------------
(* Properties of the order manager, checked under SpecManager *)

OrderCalls == {"fillOrder", "cancelOrder"}

\* the transactions of an order that the protocol did not reject
SubmittedFor(m, orderHash) ==
    {i \in 1..Len(m.submitted) : /\ m.submitted[i].orderHash = orderHash
                                /\ m.submitted[i].outcome # "rejected"}

\* the calls on an order that passed the status check and await the protocol
AwaitingProtocol(m, orderHash) ==
    {t \in Tasks : /\ m.tasks[t].method \in OrderCalls
                   /\ m.tasks[t].orderHash = orderHash
                   /\ m.tasks[t].pc = ProtocolCall[m.tasks[t].method]}

\* the calls on an order still in flight
InFlight(m, orderHash) ==
    {t \in Tasks : /\ m.tasks[t].method \in OrderCalls
                   /\ m.tasks[t].orderHash = orderHash}

StatusAfter == [fillLimitOrder |-> "filled", cancelLimitOrder |-> "cancelled"]

\* C27: under interleaved asynchronous calls, at most one fill or cancel
\* transaction is ever submitted to the protocol for a stored order: two
\* concurrent calls of fillOrder / cancelOrder on the same ACTIVE order never
\* both pass the status check and await the protocol, and once the calls on
\* the order have settled its stored status is the one of the single
\* submitted transaction.
C27_SingleSubmission ==
    IsManager =>
        \A orderHash \in OrderHashes :
            /\ Cardinality(SubmittedFor(sdk, orderHash)) <= 1
            /\ Cardinality(AwaitingProtocol(sdk, orderHash)) <= 1
            /\ (InFlight(sdk, orderHash) = {}) =>
                  \A i \in SubmittedFor(sdk, orderHash) :
                      sdk.orders[orderHash] = StatusAfter[sdk.submitted[i].call]

\* a step in which a fillOrder or cancelOrder call throws at its checks
ThrowsAtChecks ==
    /\ sdk'.settled # sdk.settled
    /\ sdk'.settled.method \in OrderCalls
    /\ ~sdk'.settled.result.ok
    /\ sdk.tasks[sdk'.settled.task].pc = "getOrder"

\* every stored hash is listed under its status and under no other
IndexedByStatus(m) ==
    \A s \in OrderStatus :
        m.ordersByStatus[s] = {h \in DOMAIN m.orders : m.orders[h] = s}

\* C28: the order lifecycle: a transaction goes to the protocol only for a
\* stored order whose status is ACTIVE; a fillOrder or cancelOrder that throws
\* at its checks (unknown hash, other status) sends nothing and leaves the
\* stored statuses and the status index as they were; an order that is FILLED
\* or CANCELLED never changes status again; and every order hash is listed in
\* ordersByStatus under exactly its current status.
C28_OrderLifecycle ==
    [][(IsManager /\ sdk'.op = "VolatilityOrderManager") =>
          /\ (Len(sdk'.submitted) > Len(sdk.submitted)) =>
                /\ sdk'.submitted[Len(sdk'.submitted)].orderHash
                      \in DOMAIN sdk.orders
                /\ sdk.orders[sdk'.submitted[Len(sdk'.submitted)].orderHash]
                      = "active"
          /\ ThrowsAtChecks =>
                /\ sdk'.submitted = sdk.submitted
                /\ sdk'.orders = sdk.orders
                /\ sdk'.ordersByStatus = sdk.ordersByStatus
          /\ \A h \in DOMAIN sdk.orders :
                sdk.orders[h] \in {"filled", "cancelled"}
                    => sdk'.orders[h] = sdk.orders[h]
          /\ IndexedByStatus(sdk')]_vars

====
